---- MODULE Spec2Model ----
(***************************************************************************)
(* A model of cargo-subcommand's project resolution (Subcommand::new) and  *)
(* of the on-demand look-ups made on its result.                           *)
(*                                                                         *)
(* Paths are sequences of components; an absolute path starts with the     *)
(* component "/".  Option<T> is a sequence of length at most one.          *)
(* Result<T, E> is a record [ok, val, err].                                *)
(***************************************************************************)
EXTENDS Integers, Sequences, FiniteSets, TLC

VARIABLES
    fs,          \* the file system: directories, descriptors, settings files, sources
    cwd,         \* std::env::current_dir()
    args,        \* the Args value handed to Subcommand::new
    env,         \* the process environment (std::env)
    pc,          \* position inside Subcommand::new
    run,         \* number of the current invocation of Subcommand::new
    loc,         \* search_path, potential_manifest, workspace_manifest
    sel,         \* (manifest_path, manifest) selected, and the package name
    config,      \* Option<LocalizedConfig>
    target_dir,  \* Option<PathBuf>: the output root, once computed
    arts,        \* bin_artifacts, example_artifacts, lib_artifact
    outcome,     \* what the invocation returned: none yet, Ok, Err(e) or a panic
    lookup,      \* the last on-demand look-up made on a returned Subcommand
    hist         \* what was observed so far: the directory scans of this
                 \* invocation, the environment before and after each completed
                 \* propagation step and the names it wrote, earlier results

vars == <<fs, cwd, args, env, pc, run, loc, sel, config, target_dir, arts,
          outcome, lookup, hist>>

(***************************************************************************)
(* Bounds of the model.                                                    *)
(***************************************************************************)
MaxRuns == 2       \* invocations of Subcommand::new in one process
MaxDecl == 2       \* declared [[bin]] / [[example]] entries per descriptor
MaxMembers == 2    \* member patterns of a [workspace]
MaxName == 3       \* characters of an artifact name passed to Subcommand::artifact

(***************************************************************************)
(* Option and Result.                                                      *)
(***************************************************************************)
None == <<>>
Some(x) == <<x>>
IsSome(o) == Len(o) > 0
IsNone(o) == Len(o) = 0
Unwrap(o) == o[1]

\* An error carries its kind and the path and/or name it was raised with.
Ok(v) == [ok |-> TRUE, val |-> v, err |-> "", arg |-> <<>>, arg2 |-> <<>>]
Err2(e, a, b) == [ok |-> FALSE, val |-> <<>>, err |-> e, arg |-> a, arg2 |-> b]
Err(e, a) == Err2(e, a, <<>>)

(***************************************************************************)
(* Paths (std::path).                                                      *)
(***************************************************************************)
Root == <<"/">>
is_absolute(p) == Len(p) > 0 /\ p[1] = "/"
is_relative(p) == ~is_absolute(p)
\* Path::join: an absolute argument replaces the base.
join(base, p) == IF is_absolute(p) THEN p ELSE base \o p
\* Path::parent of a path with at least one component below the root.
parent(p) == SubSeq(p, 1, Len(p) - 1)
\* Path::file_name: the last component ("" when there is none).
file_name(p) == IF Len(p) = 0 \/ p = Root THEN "" ELSE p[Len(p)]
\* Path::ancestors of an absolute path: the path itself first, the root last.
ancestors(p) == [i \in 1..Len(p) |-> SubSeq(p, 1, Len(p) + 1 - i)]
\* A variant of Path::strip_prefix that leaves the path as it is.
strip_prefix_kept(p, base) == p

\* Path::strip_prefix(base), used where base is known to be a prefix.
strip_prefix(p, base) == SubSeq(p, Len(base) + 1, Len(p))
starts_with(p, base) ==
    Len(base) <= Len(p) /\ SubSeq(p, 1, Len(base)) = base

\* A component that is not valid Unicode (an OsString that is no String).
NonUnicode == "\\xFF"
IsUnicodePath(p) == \A i \in 1..Len(p) : p[i] # NonUnicode

(***************************************************************************)
(* The file system, as the resolution reads it.                            *)
(*   fs.dirs      the directories that exist (absolute, canonical)         *)
(*   fs.files     the regular source files that exist (absolute)           *)
(*   fs.links     symbolic links: path -> canonical target                 *)
(*   fs.manifest  directory -> Option<contents of its Cargo.toml>          *)
(*   fs.cargo_config  directory -> Option<contents of .cargo/config.toml>  *)
(***************************************************************************)
ManifestOf(fsys, dir) ==
    IF dir \in DOMAIN fsys.manifest THEN fsys.manifest[dir] ELSE None
ConfigOf(fsys, dir) ==
    IF dir \in DOMAIN fsys.cargo_config THEN fsys.cargo_config[dir] ELSE None

\* Path::exists / Path::is_file / Path::is_dir
is_dir(fsys, p) == p \in fsys.dirs
is_file(fsys, p) ==
    \/ p \in fsys.files
    \/ /\ Len(p) > 1
       /\ file_name(p) = "Cargo.toml"
       /\ IsSome(ManifestOf(fsys, parent(p)))
    \/ /\ Len(p) > 2
       /\ file_name(p) = "config.toml"
       /\ file_name(parent(p)) = ".cargo"
       /\ IsSome(ConfigOf(fsys, parent(parent(p))))
exists(fsys, p) == is_dir(fsys, p) \/ is_file(fsys, p)

\* realpath: walk the components, "." stays, ".." goes up, a symbolic link is
\* followed, and a component that does not exist is an I/O error.
RECURSIVE Realpath(_, _, _, _)
Realpath(fsys, cur, rest, orig) ==
    IF rest = <<>> THEN Ok(cur)
    ELSE LET c == Head(rest)
             nxt == cur \o <<c>>
         IN  IF c = "." THEN Realpath(fsys, cur, Tail(rest), orig)
             ELSE IF c = ".."
             THEN Realpath(fsys, IF Len(cur) > 1 THEN parent(cur) ELSE cur,
                           Tail(rest), orig)
             ELSE IF nxt \in DOMAIN fsys.links
             THEN Realpath(fsys, fsys.links[nxt], Tail(rest), orig)
             ELSE IF exists(fsys, nxt)
             THEN Realpath(fsys, nxt, Tail(rest), orig)
             ELSE Err("Io", orig)

\* dunce::canonicalize: a relative path is taken from the working directory.
dunce_canonicalize(fsys, wd, path) ==
    Realpath(fsys, Root, Tail(join(wd, path)), path)

\* utils::canonicalize: "" stands for ".".
canonicalize(fsys, wd, path) ==
    dunce_canonicalize(fsys, wd, IF path = <<>> THEN <<".">> ELSE path)

(***************************************************************************)
(* config.rs: the settings file and its [env] table.                       *)
(*   Config          [parse, build, env]; parse is "ok", "Io" or "Toml"    *)
(*   build           Option<[target_dir : Option<String>]>                 *)
(*   env             Option<BTreeMap<String, EnvOption>>                   *)
(*   EnvOption       [variant, value, force, relative]; the variant        *)
(*                   "String" has neither flag                             *)
(*   LocalizedConfig [config, workspace]                                   *)
(* The process environment is a map from the names it defines to           *)
(* OsStrings [unicode, s].                                                 *)
(***************************************************************************)
EnvString(v) ==
    [variant |-> "String", value |-> v, force |-> FALSE, relative |-> FALSE]
EnvValue(v, f, r) ==
    [variant |-> "Value", value |-> v, force |-> f, relative |-> r]

OsStr(v) == [unicode |-> TRUE, s |-> v]
OsBytes == [unicode |-> FALSE, s |-> <<NonUnicode>>]

\* std::env::var
env_var(penv, key) ==
    IF key \notin DOMAIN penv THEN Err("NotPresent", <<>>)
    ELSE IF ~penv[key].unicode THEN Err("NotUnicode", penv[key].s)
    ELSE Ok(penv[key].s)

\* std::env::var_os
env_var_os(penv, key) == IF key \in DOMAIN penv THEN Some(penv[key]) ELSE None

\* std::env::set_var
set_var(penv, key, v) ==
    [k \in DOMAIN penv \cup {key} |-> IF k = key THEN OsStr(v) ELSE penv[k]]

\* A variant of resolve_value: a path that cannot be canonicalized falls back to
\* the raw string of the entry.
resolve_value_fallback(fsys, wd, opt, config_parent) ==
    IF opt.variant = "Value" /\ opt.relative
    THEN LET canon == dunce_canonicalize(fsys, wd, join(config_parent, opt.value))
         IN  IF canon.ok /\ IsUnicodePath(canon.val) THEN Ok(canon.val)
             ELSE Ok(opt.value)
    ELSE Ok(opt.value)

\* EnvOption::resolve_value
resolve_value(fsys, wd, opt, config_parent) ==
    IF opt.variant = "Value" /\ opt.relative
    THEN LET value == join(config_parent, opt.value)
             canon == dunce_canonicalize(fsys, wd, value)
         IN  IF ~canon.ok THEN Err("Io", value)
             ELSE IF ~IsUnicodePath(canon.val) THEN Err("NotUnicode", canon.val)
             ELSE Ok(canon.val)
    ELSE Ok(opt.value)

\* self.config.env.as_ref().and_then(|env| env.get(key))
config_var(cfg, key) ==
    IF IsSome(cfg.config.env) /\ key \in DOMAIN Unwrap(cfg.config.env)
    THEN Some(Unwrap(cfg.config.env)[key])
    ELSE None

\* A variant of IsForced: every structured entry counts as forced.
IsForced_any_value(opt) == opt.variant = "Value"

\* `EnvOption::Value { force: true, .. }`
IsForced(opt) == opt.variant = "Value" /\ opt.force

\* A variant of resolve_env: an entry of the table wins over the process
\* environment even when it is not forced.
resolve_env_table_first(fsys, wd, cfg, penv, key) ==
    LET cv == config_var(cfg, key)
    IN  IF IsSome(cv) THEN resolve_value(fsys, wd, Unwrap(cv), cfg.workspace)
        ELSE env_var(penv, key)

\* LocalizedConfig::resolve_env
resolve_env(fsys, wd, cfg, penv, key) ==
    LET cv == config_var(cfg, key)
        process_var == env_var(penv, key)
    IN  IF IsSome(cv) /\ IsForced(Unwrap(cv))
        THEN resolve_value(fsys, wd, Unwrap(cv), cfg.workspace)
        ELSE IF ~(~process_var.ok /\ process_var.err = "NotPresent")
        THEN process_var
        ELSE IF IsNone(cv) THEN Err("NotPresent", <<>>)
        ELSE resolve_value(fsys, wd, Unwrap(cv), cfg.workspace)

\* The names an [env] table can define, in the order a BTreeMap iterates them.
EnvKeys == <<"CARGO_TARGET_DIR", "X", "Y">>

\* LocalizedConfig::set_env_vars, the propagation step: every entry of the
\* table, in key order, is written to the process environment unless it is not
\* forced and the environment already defines the name; the first entry that
\* fails to resolve ends the step with its error.  Yields the result, the
\* environment it leaves and the names it wrote, [res, env, writes].
RECURSIVE SetEnvFrom(_, _, _, _, _, _)
SetEnvFrom(fsys, wd, cfg, penv, i, writes) ==
    IF i > Len(EnvKeys) THEN [res |-> Ok(<<>>), env |-> penv, writes |-> writes]
    ELSE LET key == EnvKeys[i]
             cv == config_var(cfg, key)
         IN  IF IsNone(cv) THEN SetEnvFrom(fsys, wd, cfg, penv, i + 1, writes)
             ELSE IF ~IsForced(Unwrap(cv)) /\ IsSome(env_var_os(penv, key))
             THEN SetEnvFrom(fsys, wd, cfg, penv, i + 1, writes)
             ELSE LET r == resolve_value(fsys, wd, Unwrap(cv), cfg.workspace)
                  IN  IF ~r.ok THEN [res |-> r, env |-> penv, writes |-> writes]
                      ELSE SetEnvFrom(fsys, wd, cfg, set_var(penv, key, r.val),
                                      i + 1, Append(writes, key))

set_env_vars(fsys, wd, cfg, penv) == SetEnvFrom(fsys, wd, cfg, penv, 1, <<>>)

\* Config::parse_from_toml of <dir>/.cargo/config.toml
Config_parse_from_toml(fsys, dir) ==
    LET file == ConfigOf(fsys, dir)
        path == dir \o <<".cargo", "config.toml">>
    IN  IF IsNone(file) THEN Err("Io", path)
        ELSE IF Unwrap(file).parse # "ok" THEN Err(Unwrap(file).parse, path)
        ELSE Ok(Unwrap(file))

\* LocalizedConfig::new
LocalizedConfig_new(fsys, workspace) ==
    LET c == Config_parse_from_toml(fsys, workspace)
    IN  IF ~c.ok THEN c
        ELSE Ok([config |-> c.val, workspace |-> workspace])

\* Iterator::find on a sequence of paths: the first one that is in `good`.
FindFirst(paths, good) ==
    LET hits == {i \in 1..Len(paths) : paths[i] \in good}
    IN  IF hits = {} THEN None
        ELSE Some(paths[CHOOSE i \in hits : \A j \in hits : i <= j])

\* The elements of a sequence
Range(seq) == {seq[i] : i \in 1..Len(seq)}

\* A variant of find_cargo_config_parent that returns the outermost directory
\* with a settings file.
find_cargo_config_parent_outermost(fsys, wd, workspace) ==
    LET canon == dunce_canonicalize(fsys, wd, workspace)
        dirs == ancestors(canon.val)
        hits == {i \in 1..Len(dirs) :
                    is_file(fsys, dirs[i] \o <<".cargo", "config.toml">>)}
    IN  IF ~canon.ok THEN Err("Io", workspace)
        ELSE IF hits = {} THEN Ok(None)
        ELSE Ok(Some(dirs[CHOOSE i \in hits : \A j \in hits : j <= i]))

\* LocalizedConfig::find_cargo_config_parent
find_cargo_config_parent(fsys, wd, workspace) ==
    LET canon == dunce_canonicalize(fsys, wd, workspace)
        HasConfig(dir) == is_file(fsys, dir \o <<".cargo", "config.toml">>)
    IN  IF ~canon.ok THEN Err("Io", workspace)
        ELSE Ok(FindFirst(ancestors(canon.val),
                          {dir \in Range(ancestors(canon.val)) : HasConfig(dir)}))

\* LocalizedConfig::find_cargo_config_for_workspace: Result<Option<Self>>
find_cargo_config_for_workspace(fsys, wd, workspace) ==
    LET found == find_cargo_config_parent(fsys, wd, workspace)
    IN  IF ~found.ok THEN found
        ELSE IF IsNone(found.val) THEN Ok(None)
        ELSE LET c == LocalizedConfig_new(fsys, Unwrap(found.val))
             IN  IF ~c.ok THEN c ELSE Ok(Some(c.val))

(***************************************************************************)
(* manifest.rs: the descriptor (Cargo.toml).                               *)
(*   Manifest  [parse, workspace, package, lib, bins, examples]            *)
(*   workspace Option<[members : Seq<pattern>]>                            *)
(*   package   Option<[name, autobins, autoexamples]>                      *)
(*   lib       Option<[name : Option<String>, path : Option<PathBuf>]>     *)
(*   bins, examples  Seq<[name, path : Option<PathBuf>]>                   *)
(***************************************************************************)
\* Manifest::parse_from_toml
Manifest_parse_from_toml(fsys, path) ==
    LET file == IF Len(path) > 1 /\ file_name(path) = "Cargo.toml"
                THEN ManifestOf(fsys, parent(path)) ELSE None
    IN  IF IsNone(file) THEN Err("Io", path)
        ELSE IF Unwrap(file).parse # "ok" THEN Err(Unwrap(file).parse, path)
        ELSE Ok(Unwrap(file))

\* The names of the entries of a directory, and the byte order of all names.
NameOrder ==
    <<".cargo", "Cargo.toml", "a", "b", "data", "examples", "ln", "src", "z",
      NonUnicode>>
DirEntries(fsys, dir) ==
    IF ~is_dir(fsys, dir) THEN {}
    ELSE {file_name(d) : d \in {x \in fsys.dirs \cup fsys.files \cup DOMAIN fsys.links :
                                   Len(x) = Len(dir) + 1 /\ parent(x) = dir}}
         \cup (IF IsSome(ManifestOf(fsys, dir)) THEN {"Cargo.toml"} ELSE {})
         \cup (IF IsSome(ConfigOf(fsys, dir)) THEN {".cargo"} ELSE {})
SortNames(names) == SelectSeq(NameOrder, LAMBDA n : n \in names)

\* glob::Pattern::matches for one path component: "*" matches every name,
\* "?" every name of one character, anything else only itself.
ComponentMatches(pat, name) ==
    \/ pat = "*"
    \/ pat = "?" /\ Len(name) = 1
    \/ pat = name

\* glob::glob(base.join(pattern)): the existing paths that match, in
\* alphabetical order.
RECURSIVE GlobFrom(_, _, _)
RECURSIVE GlobEach(_, _, _, _)
GlobFrom(fsys, base, pattern) ==
    IF pattern = <<>> THEN <<base>>
    ELSE LET hits == SelectSeq(SortNames(DirEntries(fsys, base)),
                               LAMBDA n : ComponentMatches(Head(pattern), n))
         IN  GlobEach(fsys, base, hits, Tail(pattern))
GlobEach(fsys, base, names, rest) ==
    IF names = <<>> THEN <<>>
    ELSE GlobFrom(fsys, base \o <<Head(names)>>, rest)
         \o GlobEach(fsys, base, Tail(names), rest)

glob(fsys, base, pattern) == GlobFrom(fsys, base, pattern)

\* The inner loops of Manifest::members: the matches of the patterns from the
\* i-th on, each parsed and checked; `all` is the HashMap built so far.
RECURSIVE MembersOfDirs(_, _, _, _)
MembersOfDirs(fsys, dirs, i, all) ==
    IF i > Len(dirs) THEN Ok(all)
    ELSE LET manifest_dir == dirs[i]
             manifest_path == manifest_dir \o <<"Cargo.toml">>
             manifest == Manifest_parse_from_toml(fsys, manifest_path)
         IN  IF ~manifest.ok THEN manifest
             ELSE IF IsSome(manifest.val.workspace)
             THEN Err("UnexpectedWorkspace", manifest_path)
             ELSE IF IsNone(manifest.val.package)
             THEN Err("NoPackageInManifest", manifest_path)
             ELSE MembersOfDirs(fsys, dirs, i + 1,
                      [d \in DOMAIN all \cup {manifest_dir} |->
                          IF d = manifest_dir
                          THEN [path |-> manifest_path, manifest |-> manifest.val]
                          ELSE all[d]])

\* The directories Manifest::members visits: the matches of every member
\* pattern, pattern after pattern.
RECURSIVE MemberDirs(_, _, _, _)
MemberDirs(fsys, root, patterns, i) ==
    IF i > Len(patterns) THEN <<>>
    ELSE glob(fsys, root, patterns[i]) \o MemberDirs(fsys, root, patterns, i + 1)

\* A variant of Manifest::members that keeps the matched directories holding a
\* package descriptor and passes over the others.
members_lenient(fsys, wd, manifest, workspace_root) ==
    IF IsNone(manifest.workspace) THEN Err("ManifestNotAWorkspace", <<>>)
    ELSE LET root == canonicalize(fsys, wd, workspace_root)
             dirs == IF root.ok
                     THEN MemberDirs(fsys, root.val,
                                     Unwrap(manifest.workspace).members, 1)
                     ELSE <<>>
             Parsed(d) == Manifest_parse_from_toml(fsys, d \o <<"Cargo.toml">>)
             good == {d \in {dirs[i] : i \in 1..Len(dirs)} :
                         /\ Parsed(d).ok
                         /\ IsNone(Parsed(d).val.workspace)
                         /\ IsSome(Parsed(d).val.package)}
         IN  IF ~root.ok THEN Err("Io", workspace_root)
             ELSE Ok([d \in good |-> [path |-> d \o <<"Cargo.toml">>,
                                      manifest |-> Parsed(d).val]])

\* Manifest::members: a map from manifest directory to (path, manifest).
members(fsys, wd, manifest, workspace_root) ==
    IF IsNone(manifest.workspace) THEN Err("ManifestNotAWorkspace", <<>>)
    ELSE LET root == canonicalize(fsys, wd, workspace_root)
         IN  IF ~root.ok THEN Err("Io", workspace_root)
             ELSE MembersOfDirs(fsys,
                      MemberDirs(fsys, root.val,
                                 Unwrap(manifest.workspace).members, 1),
                      1, <<>>)

\* A variant of Manifest::map_nonvirtual_package that does not compare the
\* package name with `name`.
map_nonvirtual_package_any_name(manifest, manifest_path, name) ==
    IF IsSome(manifest.workspace)
    THEN Err("UnexpectedWorkspace", manifest_path)
    ELSE IF IsSome(manifest.package)
    THEN Ok([path |-> manifest_path, manifest |-> manifest])
    ELSE Err("NoPackageInManifest", manifest_path)

\* Manifest::map_nonvirtual_package
map_nonvirtual_package(manifest, manifest_path, name) ==
    IF IsSome(manifest.workspace)
    THEN Err("UnexpectedWorkspace", manifest_path)
    ELSE IF IsSome(manifest.package)
    THEN IF IsSome(name)
         THEN IF Unwrap(manifest.package).name = Unwrap(name)
              THEN Ok([path |-> manifest_path, manifest |-> manifest])
              ELSE Err2("PackageNotFound", manifest_path, name)
         ELSE Ok([path |-> manifest_path, manifest |-> manifest])
    ELSE Err("NoPackageInManifest", manifest_path)

(***************************************************************************)
(* utils.rs                                                                *)
(***************************************************************************)
\* The stems a source file of the model can have; "<stem>.rs" is its name.
Stems == {"a", "b", "p", "main", "lib", "custom"}
RsName(stem) == stem \o ".rs"
\* path.extension() == Some("rs")
has_rs_extension(p) == \E st \in Stems : file_name(p) = RsName(st)
\* Path::file_stem of a file with the extension "rs"
file_stem(p) == CHOOSE st \in Stems : file_name(p) = RsName(st)

\* utils::list_rust_files: the regular files of dir with the extension "rs"
\* (a set here: read_dir yields them in no specified order).
list_rust_files(fsys, dir) ==
    IF exists(fsys, dir) /\ is_dir(fsys, dir)
    THEN {dir \o <<n>> : n \in {m \in DirEntries(fsys, dir) :
              is_file(fsys, dir \o <<m>>) /\ has_rs_extension(<<m>>)}}
    ELSE {}

\* utils::find_manifest
find_manifest(fsys, wd, path) ==
    LET canon == canonicalize(fsys, wd, path)
    IN  IF ~canon.ok THEN Err("Io", path)
        ELSE LET candidates == [i \in 1..Len(canon.val) |->
                                   ancestors(canon.val)[i] \o <<"Cargo.toml">>]
                 manifest_path ==
                     FindFirst(candidates,
                               {m \in Range(candidates) : exists(fsys, m)})
             IN  IF IsNone(manifest_path) THEN Err("ManifestNotFound", <<>>)
                 ELSE LET manifest ==
                              Manifest_parse_from_toml(fsys, Unwrap(manifest_path))
                      IN  IF ~manifest.ok THEN manifest
                          ELSE Ok([path |-> Unwrap(manifest_path),
                                   manifest |-> manifest.val])

\* The loop of utils::find_workspace over the ancestors from the i-th on.
RECURSIVE FindWorkspaceFrom(_, _, _)
FindWorkspaceFrom(fsys, dirs, i) ==
    IF i > Len(dirs) THEN Ok(None)
    ELSE LET manifest_path == dirs[i] \o <<"Cargo.toml">>
         IN  IF ~exists(fsys, manifest_path)
             THEN FindWorkspaceFrom(fsys, dirs, i + 1)
             ELSE LET manifest == Manifest_parse_from_toml(fsys, manifest_path)
                  IN  IF ~manifest.ok THEN manifest
                      ELSE IF IsSome(manifest.val.workspace)
                      THEN Ok(Some([path |-> manifest_path,
                                    manifest |-> manifest.val]))
                      ELSE FindWorkspaceFrom(fsys, dirs, i + 1)

\* A variant of utils::find_workspace that looks at the nearest descriptor only.
find_workspace_nearest_only(fsys, wd, potential_root) ==
    LET canon == canonicalize(fsys, wd, potential_root)
        dirs == ancestors(canon.val)
        found == FindFirst(dirs, {d \in Range(dirs) :
                                     exists(fsys, d \o <<"Cargo.toml">>)})
        manifest == Manifest_parse_from_toml(fsys, Unwrap(found) \o <<"Cargo.toml">>)
    IN  IF ~canon.ok THEN Err("Io", potential_root)
        ELSE IF IsNone(found) THEN Ok(None)
        ELSE IF ~manifest.ok THEN manifest
        ELSE IF IsSome(manifest.val.workspace)
        THEN Ok(Some([path |-> Unwrap(found) \o <<"Cargo.toml">>,
                      manifest |-> manifest.val]))
        ELSE Ok(None)

\* utils::find_workspace: Result<Option<(PathBuf, Manifest)>>
find_workspace(fsys, wd, potential_root) ==
    LET canon == canonicalize(fsys, wd, potential_root)
    IN  IF ~canon.ok THEN Err("Io", potential_root)
        ELSE FindWorkspaceFrom(fsys, ancestors(canon.val), 1)

\* A variant of the `Some(name)` arm that looks at the members before it looks
\* at the package of the workspace root.
PackageByName_members_first(workspace, workspace_members, name) ==
    LET named == {d \in DOMAIN workspace_members :
            Unwrap(workspace_members[d].manifest.package).name = name}
    IN  IF named # {} THEN {Ok(workspace_members[d]) : d \in named}
        ELSE IF /\ IsSome(workspace.manifest.package)
                /\ Unwrap(workspace.manifest.package).name = name
        THEN {Ok(workspace)}
        ELSE {Err2("PackageNotFound", workspace.path, <<name>>)}

\* The `Some(name)` arm of utils::find_package_manifest_in_workspace: the set
\* of results it can return (the members are visited in HashMap order, so with
\* several members named `name` any of them can be the one returned).
PackageByName(workspace, workspace_members, name) ==
    IF /\ IsSome(workspace.manifest.package)
       /\ Unwrap(workspace.manifest.package).name = name
    THEN {Ok(workspace)}
    ELSE LET named == {d \in DOMAIN workspace_members :
                 Unwrap(workspace_members[d].manifest.package).name = name}
         IN  IF named = {}
             THEN {Err2("PackageNotFound", workspace.path, <<name>>)}
             ELSE {Ok(workspace_members[d]) : d \in named}

\* A variant of utils::find_package_manifest_in_workspace that checks the
\* membership of the potential manifest only when no package name is given.
find_package_manifest_in_workspace_by_name_first(fsys, wd, workspace, potential, package_name) ==
    LET potential_manifest_dir == parent(potential.path)
        workspace_manifest_dir == parent(workspace.path)
        workspace_members ==
            members(fsys, wd, workspace.manifest, workspace_manifest_dir)
    IN  IF ~workspace_members.ok THEN {workspace_members}
        ELSE IF IsSome(package_name)
        THEN PackageByName(workspace, workspace_members.val, Unwrap(package_name))
        ELSE IF /\ workspace.path # potential.path
                /\ potential_manifest_dir \notin DOMAIN workspace_members.val
        THEN {Err2("ManifestNotInWorkspace", potential.path, workspace.path)}
        ELSE IF IsNone(potential.manifest.package)
        THEN {Err("NoPackageInManifest", potential.path)}
        ELSE {Ok(potential)}

\* A variant of utils::find_package_manifest_in_workspace that, without a
\* package name, falls back to a member when the potential manifest declares
\* no package.
find_package_manifest_in_workspace_member_fallback(fsys, wd, workspace, potential, package_name) ==
    LET potential_manifest_dir == parent(potential.path)
        workspace_manifest_dir == parent(workspace.path)
        workspace_members ==
            members(fsys, wd, workspace.manifest, workspace_manifest_dir)
    IN  IF ~workspace_members.ok THEN {workspace_members}
        ELSE IF /\ workspace.path # potential.path
                /\ potential_manifest_dir \notin DOMAIN workspace_members.val
        THEN {Err2("ManifestNotInWorkspace", potential.path, workspace.path)}
        ELSE IF IsSome(package_name)
        THEN PackageByName(workspace, workspace_members.val, Unwrap(package_name))
        ELSE IF IsSome(potential.manifest.package)
        THEN {Ok(potential)}
        ELSE IF DOMAIN workspace_members.val = {}
        THEN {Err("NoPackageInManifest", potential.path)}
        ELSE {Ok(workspace_members.val[d]) : d \in DOMAIN workspace_members.val}

\* utils::find_package_manifest_in_workspace: the set of possible results.
find_package_manifest_in_workspace(fsys, wd, workspace, potential, package_name) ==
    LET potential_manifest_dir == parent(potential.path)
        workspace_manifest_dir == parent(workspace.path)
        workspace_members ==
            members(fsys, wd, workspace.manifest, workspace_manifest_dir)
    IN  IF ~workspace_members.ok THEN {workspace_members}
        ELSE IF /\ workspace.path # potential.path
                /\ potential_manifest_dir \notin DOMAIN workspace_members.val
        THEN {Err2("ManifestNotInWorkspace", potential.path, workspace.path)}
        ELSE IF IsSome(package_name)
        THEN PackageByName(workspace, workspace_members.val, Unwrap(package_name))
        ELSE IF IsNone(potential.manifest.package)
        THEN {Err("NoPackageInManifest", potential.path)}
        ELSE {Ok(potential)}

\* utils::get_target_dir_name, on Option<&Config>
get_target_dir_name(cfg) ==
    IF /\ IsSome(cfg)
       /\ IsSome(Unwrap(cfg).build)
       /\ IsSome(Unwrap(Unwrap(cfg).build).target_dir)
    THEN Unwrap(Unwrap(Unwrap(cfg).build).target_dir)
    ELSE <<"target">>

(***************************************************************************)
(* subcommand.rs: the artifacts.                                           *)
(*   Artifact  [name, path, type]; type is "Lib", "Bin" or "Example"       *)
(*   a HashMap<String, Artifact> is a function from the names it holds     *)
(***************************************************************************)
Artifact(n, p, t) == [name |-> n, path |-> p, type |-> t]

main_bin_path == <<"src", "main.rs">>
main_lib_path == <<"src", "lib.rs">>

\* HashMap::insert
map_insert(artifacts, name, a) ==
    [n \in DOMAIN artifacts \cup {name} |-> IF n = name THEN a ELSE artifacts[n]]

\* A variant of find_main_file without the <name>/main.rs fallback.
find_main_file_flat(fsys, dir, name) ==
    IF is_file(fsys, dir \o <<RsName(name)>>)
    THEN Some(dir \o <<RsName(name)>>)
    ELSE None

\* find_main_file (inside Subcommand::new)
find_main_file(fsys, dir, name) ==
    IF is_file(fsys, dir \o <<RsName(name)>>)
    THEN Some(dir \o <<RsName(name)>>)
    ELSE IF is_file(fsys, dir \o <<name, "main.rs">>)
    THEN Some(dir \o <<name, "main.rs">>)
    ELSE None

\* What differs between the two loops over the declared targets.
KindDir(type) == IF type = "Bin" THEN <<"src", "bin">> ELSE <<"examples">>
NotFoundError(type) == IF type = "Bin" THEN "BinNotFound" ELSE "ExampleNotFound"
DuplicateError(type) == IF type = "Bin" THEN "DuplicateBin" ELSE "DuplicateExample"

\* The path a declared target gets: bin.path.clone().or_else(find_main_file)
declared_path(fsys, root_dir, decl, type) ==
    IF IsSome(decl.path) THEN decl.path
    ELSE find_main_file(fsys, root_dir \o KindDir(type), decl.name)

\* A variant in which the value HashMap::insert returns is not looked at.
is_duplicate_never(artifacts, name) == FALSE

\* `prev.is_some()` after HashMap::insert: the name was already declared.
is_duplicate(artifacts, name) == name \in DOMAIN artifacts

\* "Add all explicitly configured binaries / examples": the loop over the
\* declared targets from the i-th on.
RECURSIVE add_declared(_, _, _, _, _, _)
add_declared(fsys, root_dir, decls, type, i, artifacts) ==
    IF i > Len(decls) THEN Ok(artifacts)
    ELSE LET decl == decls[i]
             path == declared_path(fsys, root_dir, decl, type)
         IN  IF IsNone(path) THEN Err(NotFoundError(type), <<decl.name>>)
             ELSE IF is_duplicate(artifacts, decl.name)
             THEN Err(DuplicateError(type), <<decl.name>>)
             ELSE add_declared(fsys, root_dir, decls, type, i + 1,
                      map_insert(artifacts, decl.name,
                                 Artifact(decl.name, Unwrap(path), type)))

\* A variant in which no path counts as configured.
path_configured_never(artifacts, path) == FALSE

\* `artifacts.values().any(|bin| bin.path == path)`
path_configured(artifacts, path) ==
    \E n \in DOMAIN artifacts : artifacts[n].path = path

\* A variant of insert_if_unconfigured that inserts with HashMap::insert, so
\* that an artifact of the same name is replaced.
insert_if_unconfigured_replacing(name, path, type, artifacts) ==
    IF path_configured(artifacts, path) THEN artifacts
    ELSE LET n == IF IsSome(name) THEN Unwrap(name) ELSE file_stem(path)
         IN  map_insert(artifacts, n, Artifact(n, path, type))

\* insert_if_unconfigured (inside Subcommand::new)
insert_if_unconfigured(name, path, type, artifacts) ==
    IF path_configured(artifacts, path) THEN artifacts
    ELSE LET n == IF IsSome(name) THEN Unwrap(name) ELSE file_stem(path)
         IN  IF n \in DOMAIN artifacts THEN artifacts
             ELSE map_insert(artifacts, n, Artifact(n, path, type))

\* The loop over the files list_rust_files returned, in the order returned.
RECURSIVE insert_discovered(_, _, _, _, _)
insert_discovered(root_dir, files, type, i, artifacts) ==
    IF i > Len(files) THEN artifacts
    ELSE insert_discovered(root_dir, files, type, i + 1,
             insert_if_unconfigured(None, strip_prefix(files[i], root_dir),
                                    type, artifacts))

\* A variant in which the binaries follow the examples' toggle.
autobins_enabled_by_autoexamples(manifest) ==
    IF IsSome(manifest.package) THEN Unwrap(manifest.package).autoexamples ELSE TRUE

\* `parsed_manifest.package.as_ref().map_or(true, |p| p.autobins)`
autobins_enabled(manifest) ==
    IF IsSome(manifest.package) THEN Unwrap(manifest.package).autobins ELSE TRUE
autoexamples_enabled(manifest) ==
    IF IsSome(manifest.package) THEN Unwrap(manifest.package).autoexamples ELSE TRUE

\* "Parse all autobins", given the order in which read_dir listed src/bin
auto_bins(fsys, root_dir, manifest, package, files, bin_artifacts) ==
    IF autobins_enabled(manifest)
    THEN LET with_main ==
                 IF is_file(fsys, root_dir \o main_bin_path)
                 THEN insert_if_unconfigured(Some(package), main_bin_path,
                                             "Bin", bin_artifacts)
                 ELSE bin_artifacts
         IN  insert_discovered(root_dir, files, "Bin", 1, with_main)
    ELSE bin_artifacts

\* "Parse all autoexamples", given the order in which read_dir listed examples
auto_examples(root_dir, manifest, files, example_artifacts) ==
    IF autoexamples_enabled(manifest)
    THEN insert_discovered(root_dir, files, "Example", 1, example_artifacts)
    ELSE example_artifacts

\* The library artifact: Option<Artifact>
lib_artifact_of(fsys, root_dir, manifest, package) ==
    IF IsSome(manifest.lib)
    THEN LET lib == Unwrap(manifest.lib)
         IN  Some(Artifact(IF IsSome(lib.name) THEN Unwrap(lib.name) ELSE package,
                           IF IsSome(lib.path) THEN Unwrap(lib.path)
                           ELSE main_lib_path,
                           "Lib"))
    ELSE IF is_file(fsys, root_dir \o main_lib_path)
    THEN Some(Artifact(package, main_lib_path, "Lib"))
    ELSE None

\* Args::specific_target_selected
specific_target_selected(a) ==
    a.lib \/ a.bins \/ a.examples \/ a.bin # {} \/ a.example # {}

\* A variant of HashMap::retain that keeps everything when nothing matches.
retain_or_all(artifacts, keep) ==
    IF DOMAIN artifacts \cap keep = {} THEN artifacts
    ELSE [n \in DOMAIN artifacts \cap keep |-> artifacts[n]]

\* HashMap::retain(|a, _| keep.contains(a))
retain(artifacts, keep) ==
    [n \in DOMAIN artifacts \cap keep |-> artifacts[n]]

\* "Filtering based on arguments"
filter_lib(a, lib_artifact) ==
    IF specific_target_selected(a) /\ ~a.lib THEN None ELSE lib_artifact
\* A variant of the binaries' filter that does not look at --bins.
filter_bins_names_only(a, bin_artifacts) ==
    IF specific_target_selected(a)
    THEN retain(bin_artifacts, a.bin) ELSE bin_artifacts
filter_bins(a, bin_artifacts) ==
    IF specific_target_selected(a) /\ ~a.bins
    THEN retain(bin_artifacts, a.bin) ELSE bin_artifacts
filter_examples(a, example_artifacts) ==
    IF specific_target_selected(a) /\ ~a.examples
    THEN retain(example_artifacts, a.example) ELSE example_artifacts

\* The orders in which the elements of a finite set can be listed
\* (read_dir and HashMap::into_values promise none).
Orders(S) ==
    {s \in [1..Cardinality(S) -> S] : \A x \in S : \E i \in DOMAIN s : s[i] = x}

\* HashMap::into_values().collect(): the values, in one of their orders
into_values(artifacts) ==
    {[i \in DOMAIN o |-> artifacts[o[i]]] : o \in Orders(DOMAIN artifacts)}

\* Args::profile
args_profile(a) ==
    IF IsSome(a.profile) THEN Unwrap(a.profile)
    ELSE IF a.release THEN <<"Release">> ELSE <<"Dev">>

(***************************************************************************)
(* subcommand.rs: Subcommand::new, step by step.                           *)
(***************************************************************************)
\* Path::is_file of a path as the caller wrote it
path_is_file(fsys, wd, path) ==
    LET canon == dunce_canonicalize(fsys, wd, path)
    IN  canon.ok /\ is_file(fsys, canon.val)

\* The validation of --manifest-path: Result<Option<PathBuf>>
check_manifest_path(fsys, wd, a) ==
    IF IsNone(a.manifest_path) THEN Ok(None)
    ELSE LET path == Unwrap(a.manifest_path)
         IN  IF file_name(path) # "Cargo.toml" \/ ~path_is_file(fsys, wd, path)
             THEN Err("ManifestPathNotFound", <<>>)
             ELSE Ok(Some(path))

\* A variant of search_path that is the working directory whatever
\* --manifest-path says.
search_path_of_cwd(fsys, wd, manifest_path) == Ok(wd)

\* search_path: the working directory, or the directory of --manifest-path
search_path_of(fsys, wd, manifest_path) ==
    IF IsNone(manifest_path) THEN Ok(wd)
    ELSE canonicalize(fsys, wd, parent(Unwrap(manifest_path)))

\* Lines 43-63: Result<[search_path, potential, workspace]>
locate(fsys, wd, a) ==
    LET manifest_path == check_manifest_path(fsys, wd, a)
    IN  IF ~manifest_path.ok THEN manifest_path
        ELSE LET search_path == search_path_of(fsys, wd, manifest_path.val)
             IN  IF ~search_path.ok THEN search_path
                 ELSE LET potential == find_manifest(fsys, wd, search_path.val)
                          workspace == find_workspace(fsys, wd, search_path.val)
                      IN  IF ~potential.ok THEN potential
                          ELSE IF ~workspace.ok THEN workspace
                          ELSE Ok([search_path |-> search_path.val,
                                   potential |-> Some(potential.val),
                                   workspace |-> workspace.val])

\* Lines 65-76: the set of results the selection can give
select_package(fsys, wd, l, a) ==
    IF IsSome(l.workspace)
    THEN find_package_manifest_in_workspace(fsys, wd, Unwrap(l.workspace),
                                            Unwrap(l.potential), a.package)
    ELSE {map_nonvirtual_package(Unwrap(l.potential).manifest,
                                 Unwrap(l.potential).path, a.package)}

\* A variant of the output root that asks for CARGO_TARGET_DIR before
\* CARGO_BUILD_TARGET_DIR.
target_dir_of_general_first(wd, a, penv, l, manifest_path, cfg) ==
    LET from_env ==
            IF IsSome(env_var_os(penv, "CARGO_TARGET_DIR"))
            THEN Some(penv["CARGO_TARGET_DIR"].s)
            ELSE IF IsSome(env_var_os(penv, "CARGO_BUILD_TARGET_DIR"))
            THEN Some(penv["CARGO_BUILD_TARGET_DIR"].s)
            ELSE None
        chosen == IF IsSome(a.target_dir) THEN a.target_dir ELSE from_env
        base == IF IsSome(l.workspace) THEN Unwrap(l.workspace).path
                ELSE manifest_path
    IN  IF IsSome(chosen)
        THEN IF is_relative(Unwrap(chosen)) THEN wd \o Unwrap(chosen)
             ELSE Unwrap(chosen)
        ELSE join(parent(base),
                  get_target_dir_name(
                      IF IsSome(cfg) THEN Some(Unwrap(cfg).config) ELSE None))

\* Lines 92-116: the output root
target_dir_of(wd, a, penv, l, manifest_path, cfg) ==
    LET from_env ==
            IF IsSome(env_var_os(penv, "CARGO_BUILD_TARGET_DIR"))
            THEN Some(penv["CARGO_BUILD_TARGET_DIR"].s)
            ELSE IF IsSome(env_var_os(penv, "CARGO_TARGET_DIR"))
            THEN Some(penv["CARGO_TARGET_DIR"].s)
            ELSE None
        chosen == IF IsSome(a.target_dir) THEN a.target_dir ELSE from_env
        base == IF IsSome(l.workspace) THEN Unwrap(l.workspace).path
                ELSE manifest_path
    IN  IF IsSome(chosen)
        THEN IF is_relative(Unwrap(chosen)) THEN wd \o Unwrap(chosen)
             ELSE Unwrap(chosen)
        ELSE join(parent(base),
                  get_target_dir_name(
                      IF IsSome(cfg) THEN Some(Unwrap(cfg).config) ELSE None))

NoLookup == [op |-> "none", key |-> "", res |-> Ok(<<>>)]
NoLoc == [search_path |-> <<>>, potential |-> None, workspace |-> None]
NoArts == [bins |-> <<>>, examples |-> <<>>, lib |-> None]
Running == [state |-> "none", error |-> Ok(<<>>), project |-> None]
Failed(e) == [state |-> "Err", error |-> e, project |-> None]
Panicked(e) == [state |-> "panic", error |-> e, project |-> None]
Returned(project) == [state |-> "Ok", error |-> Ok(<<>>), project |-> Some(project)]

\* The selected package: its name and its root directory
package == Unwrap(Unwrap(sel).manifest.package).name
root_dir == parent(Unwrap(sel).path)

\* A variant of lines 43-63 in which the settings at or above the working
\* directory are propagated before the descriptor is searched for.
Locate_propagating ==
    /\ pc = "start"
    /\ LET r == locate(fs, cwd, args)
           c == find_cargo_config_for_workspace(fs, cwd, cwd)
       IN  /\ env' = IF c.ok /\ IsSome(c.val)
                     THEN set_env_vars(fs, cwd, Unwrap(c.val), env).env
                     ELSE env
           /\ IF r.ok
              THEN /\ loc' = r.val
                   /\ pc' = "select"
                   /\ outcome' = outcome
              ELSE /\ loc' = loc
                   /\ pc' = "error"
                   /\ outcome' = Failed(r)
    /\ UNCHANGED <<fs, cwd, args, run, sel, config, target_dir, arts,
                   lookup, hist>>

\* Lines 43-63: the manifest path is validated, the descriptor and the
\* workspace root are searched for.
Locate ==
    /\ pc = "start"
    /\ LET r == locate(fs, cwd, args)
       IN  IF r.ok
           THEN /\ loc' = r.val
                /\ pc' = "select"
                /\ outcome' = outcome
           ELSE /\ loc' = loc
                /\ pc' = "error"
                /\ outcome' = Failed(r)
    /\ UNCHANGED <<fs, cwd, args, env, run, sel, config, target_dir, arts,
                   lookup, hist>>

\* Lines 65-81: one package is selected.
SelectPackage ==
    /\ pc = "select"
    /\ \E r \in select_package(fs, cwd, loc, args) :
           IF r.ok
           THEN /\ sel' = Some(r.val)
                /\ pc' = "config"
                /\ outcome' = outcome
           ELSE /\ sel' = sel
                /\ pc' = "error"
                /\ outcome' = Failed(r)
    /\ UNCHANGED <<fs, cwd, args, env, run, loc, config, target_dir, arts,
                   lookup, hist>>

\* Line 85: the settings file is searched for and parsed.
FindConfig ==
    /\ pc = "config"
    /\ LET r == find_cargo_config_for_workspace(fs, cwd, root_dir)
       IN  IF r.ok
           THEN /\ config' = r.val
                /\ pc' = "setenv"
                /\ outcome' = outcome
           ELSE /\ config' = config
                /\ pc' = "error"
                /\ outcome' = Failed(r)
    /\ UNCHANGED <<fs, cwd, args, env, run, loc, sel, target_dir, arts,
                   lookup, hist>>

\* A variant of lines 86-88 that goes on without propagating anything.
SetEnvVars_skipped ==
    /\ pc = "setenv"
    /\ pc' = "target_dir"
    /\ UNCHANGED <<fs, cwd, args, env, run, loc, sel, config, target_dir, arts,
                   outcome, lookup, hist>>

\* Lines 86-88: `config.set_env_vars().unwrap()`, the propagation step.
SetEnvVars ==
    /\ pc = "setenv"
    /\ IF IsSome(config)
       THEN LET r == set_env_vars(fs, cwd, Unwrap(config), env)
            IN  /\ env' = r.env
                /\ IF r.res.ok
                   THEN /\ pc' = "target_dir"
                        /\ outcome' = outcome
                        /\ hist' = [hist EXCEPT
                                      !.env_before = Append(@, env),
                                      !.env_after = Append(@, r.env),
                                      !.writes = Append(@, r.writes)]
                   ELSE /\ pc' = "panic"
                        /\ outcome' = Panicked(r.res)
                        /\ hist' = hist
       ELSE /\ pc' = "target_dir"
            /\ UNCHANGED <<env, outcome, hist>>
    /\ UNCHANGED <<fs, cwd, args, run, loc, sel, config, target_dir, arts, lookup>>

\* Lines 90-116: the descriptor is parsed again and the output root computed.
TargetDir ==
    /\ pc = "target_dir"
    /\ LET parsed_manifest == Manifest_parse_from_toml(fs, Unwrap(sel).path)
       IN  IF parsed_manifest.ok
           THEN /\ target_dir' = Some(target_dir_of(cwd, args, env, loc,
                                                    Unwrap(sel).path, config))
                /\ pc' = "declared"
                /\ outcome' = outcome
           ELSE /\ target_dir' = target_dir
                /\ pc' = "error"
                /\ outcome' = Failed(parsed_manifest)
    /\ UNCHANGED <<fs, cwd, args, env, run, loc, sel, config, arts, lookup, hist>>

\* Line 90: `parsed_manifest`, the selected descriptor as parsed again
parsed_manifest == Manifest_parse_from_toml(fs, Unwrap(sel).path).val

\* Lines 134-174: the declared binaries, then the declared examples.
DeclaredTargets ==
    /\ pc = "declared"
    /\ LET bins == add_declared(fs, root_dir, parsed_manifest.bins, "Bin", 1, <<>>)
           examples == add_declared(fs, root_dir, parsed_manifest.examples,
                                    "Example", 1, <<>>)
       IN  IF ~bins.ok
           THEN /\ pc' = "error"
                /\ outcome' = Failed(bins)
                /\ arts' = arts
           ELSE IF ~examples.ok
           THEN /\ pc' = "error"
                /\ outcome' = Failed(examples)
                /\ arts' = [arts EXCEPT !.bins = bins.val]
           ELSE /\ pc' = "auto"
                /\ outcome' = outcome
                /\ arts' = [arts EXCEPT !.bins = bins.val,
                                        !.examples = examples.val]
    /\ UNCHANGED <<fs, cwd, args, env, run, loc, sel, config, target_dir,
                   lookup, hist>>

\* The directory scans auto-discovery makes for the descriptor
scans_of(manifest) ==
    (IF autobins_enabled(manifest) THEN 1 ELSE 0)
    + (IF autoexamples_enabled(manifest) THEN 1 ELSE 0)

\* Lines 200-234: auto-discovery of binaries, then of examples.
AutoDiscover ==
    /\ pc = "auto"
    /\ \E bin_files \in Orders(list_rust_files(fs, root_dir \o <<"src", "bin">>)),
          example_files \in Orders(list_rust_files(fs, root_dir \o <<"examples">>)) :
           arts' = [arts EXCEPT
                      !.bins = auto_bins(fs, root_dir, parsed_manifest, package,
                                         bin_files, @),
                      !.examples = auto_examples(root_dir, parsed_manifest,
                                                 example_files, @)]
    /\ hist' = [hist EXCEPT !.scans = @ + scans_of(parsed_manifest)]
    /\ pc' = "lib"
    /\ UNCHANGED <<fs, cwd, args, env, run, loc, sel, config, target_dir,
                   outcome, lookup>>

\* All sequences over S of length at most n
RECURSIVE SeqsUpTo(_, _)
SeqsUpTo(S, n) ==
    IF n = 0 THEN {<<>>}
    ELSE SeqsUpTo(S, n - 1)
         \cup {Append(q, x) : q \in {t \in SeqsUpTo(S, n - 1) : Len(t) = n - 1},
                              x \in S}

(***************************************************************************)
(* artifact.rs, profile.rs and the accessors of Subcommand: the path of a   *)
(* built artifact.  A string that is searched or rewritten (an artifact    *)
(* name, a target triple) is a sequence of pieces: the characters of a     *)
(* name, the words and separators of a triple, "windows" and "wasm" being  *)
(* words of their own.  Concat gives the string.                           *)
(***************************************************************************)
RECURSIVE Concat(_)
Concat(pieces) ==
    IF pieces = <<>> THEN "" ELSE Head(pieces) \o Concat(Tail(pieces))
\* str::contains
contains(pieces, needle) == \E i \in DOMAIN pieces : pieces[i] = needle
\* str::replace of one character
replace(pieces, from, to) ==
    [i \in DOMAIN pieces |-> IF pieces[i] = from THEN to ELSE pieces[i]]

CrateTypes == {"Bin", "Lib", "Staticlib", "Cdylib"}
ArtifactTypes == {"Lib", "Bin", "Example"}
\* What panic! gives instead of a value
Panic(a, c) == Err2("panic", a, c)

\* A variant of Artifact::file_name that keeps the hyphens of the name.
Artifact_file_name_verbatim(a, ty, target) ==
    IF a.type \in {"Bin", "Example"} /\ ty = "Bin"
    THEN Ok(IF contains(target, "windows") THEN Concat(a.name) \o ".exe"
            ELSE IF contains(target, "wasm") THEN Concat(a.name) \o ".wasm"
            ELSE Concat(a.name))
    ELSE IF a.type \in {"Lib", "Example"} /\ ty = "Lib"
    THEN Ok("lib" \o Concat(a.name) \o ".rlib")
    ELSE IF a.type \in {"Lib", "Example"} /\ ty = "Staticlib"
    THEN Ok("lib" \o Concat(a.name) \o ".a")
    ELSE IF a.type \in {"Lib", "Example"} /\ ty = "Cdylib"
    THEN Ok("lib" \o Concat(a.name) \o ".so")
    ELSE Panic(a.type, ty)

\* Artifact::file_name
Artifact_file_name(a, ty, target) ==
    IF a.type \in {"Bin", "Example"} /\ ty = "Bin"
    THEN Ok(IF contains(target, "windows") THEN Concat(a.name) \o ".exe"
            ELSE IF contains(target, "wasm") THEN Concat(a.name) \o ".wasm"
            ELSE Concat(a.name))
    ELSE IF a.type \in {"Lib", "Example"} /\ ty = "Lib"
    THEN Ok("lib" \o Concat(replace(a.name, "-", "_")) \o ".rlib")
    ELSE IF a.type \in {"Lib", "Example"} /\ ty = "Staticlib"
    THEN Ok("lib" \o Concat(replace(a.name, "-", "_")) \o ".a")
    ELSE IF a.type \in {"Lib", "Example"} /\ ty = "Cdylib"
    THEN Ok("lib" \o Concat(replace(a.name, "-", "_")) \o ".so")
    ELSE Panic(a.type, ty)

\* Artifact::build_dir
Artifact_build_dir(a) == IF a.type = "Example" THEN <<"examples">> ELSE <<>>

\* Profile: Dev, Release, Custom(name)
Dev == <<"Dev">>
Release == <<"Release">>
Custom(name) == <<"Custom", name>>
\* impl AsRef<Path> for Profile
Profile_as_ref(profile) ==
    IF profile = Dev THEN <<"debug">>
    ELSE IF profile = Release THEN <<"release">>
    ELSE <<profile[2]>>

\* A variant of Subcommand::build_dir that never adds the target directory.
build_dir_flat(project, target) ==
    join(project.target_dir, Profile_as_ref(project.profile))

\* Subcommand::build_dir (dunce::simplified changes nothing off Windows)
build_dir(project, target) ==
    LET arch_dir == IF IsSome(target)
                    THEN join(project.target_dir, <<Concat(Unwrap(target))>>)
                    ELSE project.target_dir
    IN  join(arch_dir, Profile_as_ref(project.profile))

\* The pieces of current_platform::CURRENT_PLATFORM
HostTriple == <<"x86_64", "-", "unknown", "-", "linux", "-", "gnu">>

\* Subcommand::artifact: the path, or the panic of Artifact::file_name
artifact(project, a, target, crate_type) ==
    LET triple == IF IsSome(target) THEN Unwrap(target) ELSE HostTriple
        name == Artifact_file_name(a, crate_type, triple)
    IN  IF ~name.ok THEN name
        ELSE Ok(join(join(build_dir(project, target), Artifact_build_dir(a)),
                     <<name.val>>))

\* current_platform::CURRENT_PLATFORM
host_triple == Concat(HostTriple)

\* Lines 236-288: the library, the filters, and the value returned.
Finish ==
    /\ pc = "lib"
    /\ LET lib == lib_artifact_of(fs, root_dir, parsed_manifest, package)
           kept == [lib |-> filter_lib(args, lib),
                    bins |-> filter_bins(args, arts.bins),
                    examples |-> filter_examples(args, arts.examples)]
       IN  /\ arts' = kept
           /\ \E bin_artifacts \in into_values(kept.bins),
                 example_artifacts \in into_values(kept.examples) :
                  outcome' = Returned(
                      [args |-> args,
                       package |-> package,
                       workspace_manifest |->
                           IF IsSome(loc.workspace)
                           THEN Some(Unwrap(loc.workspace).path) ELSE None,
                       manifest |-> Unwrap(sel).path,
                       target_dir |-> Unwrap(target_dir),
                       host_triple |-> host_triple,
                       profile |-> args_profile(args),
                       lib_artifact |-> kept.lib,
                       bin_artifacts |-> bin_artifacts,
                       example_artifacts |-> example_artifacts,
                       config |-> config])
    /\ pc' = "done"
    /\ UNCHANGED <<fs, cwd, args, env, run, loc, sel, config, target_dir,
                   lookup, hist>>

\* The artifacts and target triples Subcommand::artifact is asked about
NameChars == {"a", "-", "_"}
ArtifactNames == {n \in SeqsUpTo(NameChars, MaxName) : n # <<>>}
Targets ==
    {None,
     Some(<<"x86_64", "-", "unknown", "-", "linux", "-", "gnu">>),
     Some(<<"x86_64", "-", "pc", "-", "windows", "-", "msvc">>),
     Some(<<"wasm", "32", "-", "unknown", "-", "unknown">>),
     Some(<<"wasm", "32", "-", "windows">>)}

\* The caller asks the resolved project for the path of a built artifact:
\* Subcommand::artifact(artifact, target, crate_type).
ArtifactPath ==
    /\ pc = "done"
    /\ lookup.op = "none"
    /\ \E name \in ArtifactNames, type \in ArtifactTypes, target \in Targets,
          crate_type \in CrateTypes :
           LET a == Artifact(name, <<"src", "custom.rs">>, type)
               path == artifact(Unwrap(outcome.project), a, target, crate_type)
           IN  /\ lookup' = [op |-> "artifact",
                             key |-> [artifact |-> a, target |-> target,
                                      crate_type |-> crate_type],
                             res |-> path]
               /\ pc' = IF path.ok THEN pc ELSE "panic"
    /\ UNCHANGED <<fs, cwd, args, env, run, loc, sel, config, target_dir, arts,
                   outcome, hist>>

\* The caller invokes Subcommand::new again, with the same arguments, in the
\* same process.
Restart ==
    /\ pc \in {"done", "error"}
    /\ run < MaxRuns
    /\ run' = run + 1
    /\ pc' = "start"
    /\ loc' = NoLoc
    /\ sel' = None
    /\ config' = None
    /\ target_dir' = None
    /\ arts' = NoArts
    /\ outcome' = Running
    /\ lookup' = NoLookup
    /\ hist' = [hist EXCEPT !.scans = 0,
                            !.env0 = env,
                            !.results = Append(@, outcome)]
    /\ UNCHANGED <<fs, cwd, args, env>>

\* The names looked up on demand: those of the table and one it never holds
LookupKeys == {EnvKeys[i] : i \in 1..Len(EnvKeys)} \cup {"Z"}

\* The caller opens the settings file without resolving a project:
\* LocalizedConfig::find_cargo_config_for_workspace(current directory)
LoadConfig ==
    /\ pc = "start"
    /\ run = 1
    /\ LET r == find_cargo_config_for_workspace(fs, cwd, cwd)
       IN  /\ config' = IF r.ok THEN r.val ELSE None
           /\ lookup' = [op |-> "find_cargo_config", key |-> "", res |-> r]
    /\ pc' = "loaded"
    /\ UNCHANGED <<fs, cwd, args, env, run, loc, sel, target_dir, arts,
                   outcome, hist>>

\* The caller looks a variable up on the settings it holds:
\* config.resolve_env(key)
ResolveEnv ==
    /\ pc \in {"done", "loaded"}
    /\ IsSome(config)
    /\ \E key \in LookupKeys :
           lookup' = [op |-> "resolve_env", key |-> key,
                      res |-> resolve_env(fs, cwd, Unwrap(config), env, key)]
    /\ UNCHANGED <<fs, cwd, args, env, pc, run, loc, sel, config, target_dir,
                   arts, outcome, hist>>

\* One invocation of Subcommand::new
Resolve ==
    \/ Locate
    \/ SelectPackage
    \/ FindConfig
    \/ SetEnvVars
    \/ TargetDir
    \/ DeclaredTargets
    \/ AutoDiscover
    \/ Finish

Next ==
    \/ Resolve
    \/ Restart
    \/ LoadConfig
    \/ ResolveEnv

(***************************************************************************)
(* Initial states: a file system, a working directory, the arguments and   *)
(* the process environment the program is started with.                    *)
(***************************************************************************)
DefaultArgs ==
    [package |-> None, manifest_path |-> None, target_dir |-> None,
     lib |-> FALSE, bin |-> {}, bins |-> FALSE, example |-> {},
     examples |-> FALSE, release |-> FALSE, profile |-> None, target |-> None]

Package(n, ab, ae) == [name |-> n, autobins |-> ab, autoexamples |-> ae]
Manifest(ws, pkg, lib, bins, examples) ==
    [parse |-> "ok", workspace |-> ws, package |-> pkg, lib |-> lib,
     bins |-> bins, examples |-> examples]
\* A Cargo.toml that cannot be read ("Io") or is malformed ("Toml")
BrokenManifest(kind) ==
    [parse |-> kind, workspace |-> None, package |-> None, lib |-> None,
     bins |-> <<>>, examples |-> <<>>]
Config(build, table) == [parse |-> "ok", build |-> build, env |-> table]
BrokenConfig(kind) == [parse |-> kind, build |-> None, env |-> None]

\* All maps from a subset of keys to values
PartialMaps(keys, values) == UNION {[ks -> values] : ks \in SUBSET keys}

StartWith(fsys, wd, a, penv) ==
    /\ fs = fsys
    /\ cwd = wd
    /\ args = a
    /\ env = penv
    /\ pc = "start"
    /\ run = 1
    /\ loc = NoLoc
    /\ sel = None
    /\ config = None
    /\ target_dir = None
    /\ arts = NoArts
    /\ outcome = Running
    /\ lookup = NoLookup
    /\ hist = [scans |-> 0, env0 |-> penv, env_before |-> <<>>,
               env_after |-> <<>>, writes |-> <<>>, results |-> <<>>]

W == <<"/", "w">>

\* The project of the environment scenarios: one package `p` in /w with its
\* settings file; /w/data exists, /w/ln is a symbolic link to it, one directory
\* has a name that is not Unicode, and /w/nodir does not exist.
EnvFs(cfg) ==
    [dirs |-> {Root, W, W \o <<"src">>, W \o <<"data">>, W \o <<NonUnicode>>},
     files |-> {W \o <<"src", "main.rs">>},
     links |-> [l \in {W \o <<"ln">>} |-> W \o <<"data">>],
     manifest |-> [d \in {W} |->
         Some(Manifest(None, Some(Package("p", TRUE, TRUE)), None, <<>>, <<>>))],
     cargo_config |-> [d \in {W} |-> cfg]]

TableValues == {<<"data">>, <<"ln">>, <<"nodir">>, <<NonUnicode>>}
TableEntries ==
    {EnvString(v) : v \in TableValues}
    \cup {EnvValue(v, f, r) : v \in TableValues, f \in BOOLEAN, r \in BOOLEAN}
ProcessValues == {OsStr(<<"b">>), OsBytes}

\* Environment scenarios: every [env] table over X and Y, every process
\* environment over X and Y; also a settings file without [env], and none.
InitEnv ==
    \E penv \in PartialMaps({"X", "Y"}, ProcessValues) :
        \/ \E table \in PartialMaps({"X", "Y"}, TableEntries) :
               StartWith(EnvFs(Some(Config(None, Some(table)))), W,
                         DefaultArgs, penv)
        \/ StartWith(EnvFs(Some(Config(None, None))), W, DefaultArgs, penv)
        \/ StartWith(EnvFs(None), W, DefaultArgs, penv)

SpecEnv == InitEnv /\ [][Next]_vars

\* The project of the selection scenarios: /w with the directories /w/a and
\* /w/b below it; any of the three can hold a descriptor.
PkgFs(mw, ma, mb) ==
    [dirs |-> {Root, W, W \o <<"a">>, W \o <<"b">>},
     files |-> {},
     links |-> <<>>,
     manifest |-> [d \in {W, W \o <<"a">>, W \o <<"b">>} |->
                      IF d = W THEN mw ELSE IF d = W \o <<"a">> THEN ma ELSE mb],
     cargo_config |-> <<>>]

Plain(name) == Manifest(None, Some(Package(name, TRUE, TRUE)), None, <<>>, <<>>)
Workspace(patterns) == [members |-> patterns]
MemberPatterns == {<<"a">>, <<"?">>, <<"*">>, <<"z">>}

\* The descriptors /w can hold: none, a malformed one, a package `p` or no
\* package, with or without a [workspace] of up to MaxMembers member patterns
RootManifests ==
    {None, Some(BrokenManifest("Toml"))}
    \cup {Some(Manifest(ws, pkg, None, <<>>, <<>>)) :
            ws \in {None} \cup {Some(Workspace(ps)) :
                                   ps \in SeqsUpTo(MemberPatterns, MaxMembers)},
            pkg \in {None, Some(Package("p", TRUE, TRUE))}}

\* The descriptors /w/a and /w/b can hold: none, a malformed one, a package, a
\* descriptor with neither [package] nor [workspace], a nested workspace
MemberManifestsA ==
    {None, Some(BrokenManifest("Toml")), Some(Plain("q")), Some(Plain("p")),
     Some(Manifest(None, None, None, <<>>, <<>>)),
     Some(Manifest(Some(Workspace(<<>>)), Some(Package("q", TRUE, TRUE)),
                   None, <<>>, <<>>))}
MemberManifestsB ==
    {None, Some(Plain("q")), Some(Plain("r")),
     Some(Manifest(Some(Workspace(<<>>)), None, None, <<>>, <<>>))}

\* Selection scenarios: every combination of the three descriptors, started
\* in each of the three directories, with and without a --package filter.
InitPkg ==
    \E mw \in RootManifests, ma \in MemberManifestsA, mb \in MemberManifestsB,
       wd \in {W, W \o <<"a">>, W \o <<"b">>},
       filter \in {None, Some("p"), Some("q"), Some("x")} :
        StartWith(PkgFs(mw, ma, mb), wd,
                  [DefaultArgs EXCEPT !.package = filter], <<>>)

SpecPkg == InitPkg /\ [][Resolve]_vars

\* The project of the artifact scenarios: one package `p` in /w, outside any
\* workspace, with the given source files and descriptor.
ArtFs(files, manifest) ==
    [dirs |-> {Root, W, W \o <<"src">>, W \o <<"src", "bin">>,
               W \o <<"src", "bin", "b">>, W \o <<"examples">>},
     files |-> {W \o f : f \in files},
     links |-> <<>>,
     manifest |-> [d \in {W} |-> Some(manifest)],
     cargo_config |-> <<>>]

Target(name, path) == [name |-> name, path |-> path]
BinFiles ==
    {<<"src", "main.rs">>, <<"src", "bin", "a.rs">>, <<"src", "bin", "p.rs">>,
     <<"src", "bin", "b", "main.rs">>}
ExampleFiles == {<<"examples", "a.rs">>, <<"examples", "b.rs">>}
\* The [[bin]] and [[example]] tables a descriptor can declare: the names a
\* and b, without a path or with one of two explicit paths
BinTargets ==
    {Target(n, path) : n \in {"a", "b"},
                       path \in {None, Some(<<"src", "bin", "a.rs">>),
                                 Some(<<"src", "custom.rs">>)}}
ExampleTargets ==
    {Target(n, path) : n \in {"a", "b"},
                       path \in {None, Some(<<"examples", "a.rs">>),
                                 Some(<<"src", "bin", "a.rs">>)}}

\* Artifact scenarios: up to MaxDecl declared binaries over every set of binary
\* sources, or up to MaxDecl declared examples over every set of example
\* sources, with auto-discovery on and off, with and without a target filter.
InitArt ==
    \/ \E files \in SUBSET BinFiles, bins \in SeqsUpTo(BinTargets, MaxDecl),
          autobins \in BOOLEAN, bin \in {{}, {"a"}} :
           StartWith(ArtFs(files \cup {<<"examples", "a.rs">>},
                           Manifest(None, Some(Package("p", autobins, TRUE)),
                                    None, bins, <<>>)),
                     W, [DefaultArgs EXCEPT !.bin = bin], <<>>)
    \/ \E files \in SUBSET ExampleFiles,
          examples \in SeqsUpTo(ExampleTargets, MaxDecl),
          autoexamples \in BOOLEAN, example \in {{}, {"a"}} :
           StartWith(ArtFs(files \cup {<<"src", "bin", "a.rs">>},
                           Manifest(None, Some(Package("p", TRUE, autoexamples)),
                                    None, <<Target("b", Some(<<"src", "custom.rs">>))>>,
                                    examples)),
                     W, [DefaultArgs EXCEPT !.example = example], <<>>)

SpecArt == InitArt /\ [][Resolve]_vars

(***************************************************************************)
(* The environment claims, checked under SpecEnv.                          *)
(***************************************************************************)
\* What canonicalizing <settings directory>/<value> gives in EnvFs, written
\* out by hand: /w/data exists, /w/ln links to it, /w/nodir does not exist and
\* one existing directory has a name that is not Unicode.
RelativeOutcome(v) ==
    CASE v = <<"data">> -> Ok(W \o <<"data">>)
      [] v = <<"ln">> -> Ok(W \o <<"data">>)
      [] v = <<"nodir">> -> Err("Io", W \o <<"nodir">>)
      [] v = <<NonUnicode>> -> Err("NotUnicode", W \o <<NonUnicode>>)

\* What an entry of the table stands for: its string, or its canonical path
EntryOutcome(e) ==
    IF e.variant = "Value" /\ e.relative THEN RelativeOutcome(e.value)
    ELSE Ok(e.value)

\* What the process environment gives for a name it defines
ProcessOutcome(penv, k) ==
    IF penv[k].unicode THEN Ok(penv[k].s) ELSE Err("NotUnicode", penv[k].s)

\* The [env] table of the settings held (empty when there is none)
TableOf(cfg) == IF IsSome(cfg.config.env) THEN Unwrap(cfg.config.env) ELSE <<>>
EntryForced(e) == e.variant = "Value" /\ e.force = TRUE
Looked == lookup.op = "resolve_env"

\* C1: resolve_env(K) returns the table's value for K when the table defines K
\* with force = true, whatever the process environment holds; otherwise the
\* process environment's value when it defines K (also when the table does not
\* define K; a value that is not Unicode is the error NotUnicode); otherwise
\* the table's value when the table defines K; otherwise the error NotPresent.
\* Values that are not relative are returned verbatim.
C1_ResolveEnvPrecedence ==
    Looked =>
        LET table == TableOf(Unwrap(config))
            k == lookup.key
        IN  IF k \in DOMAIN table /\ EntryForced(table[k])
            THEN lookup.res = EntryOutcome(table[k])
            ELSE IF k \in DOMAIN env
            THEN lookup.res = ProcessOutcome(env, k)
            ELSE IF k \in DOMAIN table
            THEN lookup.res = EntryOutcome(table[k])
            ELSE lookup.res = Err("NotPresent", <<>>)

\* C1 witness: a forced, non-relative entry was looked up while the process
\* environment held another value for the name, and the table's value came back.
C1_Witness ==
    /\ Looked
    /\ pc = "loaded"
    /\ lookup.key \in DOMAIN TableOf(Unwrap(config))
    /\ EntryForced(TableOf(Unwrap(config))[lookup.key])
    /\ ~TableOf(Unwrap(config))[lookup.key].relative
    /\ lookup.key \in DOMAIN env
    /\ env[lookup.key] = OsStr(<<"b">>)
    /\ lookup.res = Ok(TableOf(Unwrap(config))[lookup.key].value)

\* C2 as claimed: every relative entry resolves to the canonical path of
\* <settings directory>/<value> and fails when that path cannot be
\* canonicalized, whether or not the entry is forced and whether or not the
\* process environment defines the variable.
C2_AsClaimed ==
    (Looked /\ lookup.key \in DOMAIN TableOf(Unwrap(config))) =>
        LET e == TableOf(Unwrap(config))[lookup.key]
        IN  (e.variant = "Value" /\ e.relative) =>
                IF RelativeOutcome(e.value).ok
                THEN lookup.res = RelativeOutcome(e.value)
                ELSE ~lookup.res.ok

\* C2 amended: a relative entry that is forced, or whose variable the process
\* environment does not define, resolves to the canonical path of <settings
\* directory>/<value>, and to an error, never another value, when that path
\* cannot be canonicalized or is not Unicode; a relative entry that is not
\* forced and whose variable the process environment defines resolves to the
\* process environment's value, and its path is not canonicalized.
C2_RelativeCanonicalized ==
    (Looked /\ lookup.key \in DOMAIN TableOf(Unwrap(config))) =>
        LET e == TableOf(Unwrap(config))[lookup.key]
        IN  (e.variant = "Value" /\ e.relative) =>
                IF EntryForced(e) \/ lookup.key \notin DOMAIN env
                THEN lookup.res = RelativeOutcome(e.value)
                ELSE lookup.res = ProcessOutcome(env, lookup.key)

\* C2 witness: a forced relative entry whose path does not exist was looked up
\* while the process environment defined the name, and the look-up failed.
C2_Witness ==
    /\ Looked
    /\ lookup.key \in DOMAIN TableOf(Unwrap(config))
    /\ TableOf(Unwrap(config))[lookup.key] = EnvValue(<<"nodir">>, TRUE, TRUE)
    /\ lookup.key \in DOMAIN env
    /\ ~lookup.res.ok
    /\ lookup.res.err = "Io"

\* The [env] table of the settings file of the project in /w
SettingsTable ==
    IF IsSome(ConfigOf(fs, W)) /\ IsSome(Unwrap(ConfigOf(fs, W)).env)
    THEN Unwrap(Unwrap(ConfigOf(fs, W)).env) ELSE <<>>

\* The names a propagation step wrote
Written(i) == {hist.writes[i][j] : j \in 1..Len(hist.writes[i])}

\* C3: the propagation step is idempotent: a second run leaves the process
\* environment exactly as the first run left it; a non-forced entry never
\* overwrites a variable the process environment holds (one the first run set
\* included), and every run writes every forced entry with its table value.
C3_PropagationIdempotent ==
    \A i \in 1..Len(hist.env_after) :
        LET table == SettingsTable
            before == hist.env_before[i]
            after == hist.env_after[i]
        IN  /\ i > 1 => /\ before = hist.env_after[i - 1]
                        /\ after = before
            /\ \A k \in DOMAIN table :
                   IF EntryForced(table[k])
                   THEN /\ k \in Written(i)
                        /\ after[k] = OsStr(EntryOutcome(table[k]).val)
                   ELSE IF k \in DOMAIN before
                   THEN k \notin Written(i) /\ after[k] = before[k]
                   ELSE /\ k \in Written(i)
                        /\ after[k] = OsStr(EntryOutcome(table[k]).val)
            /\ \A k \in DOMAIN after \ DOMAIN table :
                   k \in DOMAIN before /\ after[k] = before[k]

\* C3 witness: the step has run twice; the first run set X from a non-forced
\* entry and the second left it alone, and both runs wrote the forced Y over
\* the value the process started with.
C3_Witness ==
    /\ Len(hist.env_after) = 2
    /\ DOMAIN SettingsTable = {"X", "Y"}
    /\ ~EntryForced(SettingsTable["X"])
    /\ EntryForced(SettingsTable["Y"])
    /\ "X" \notin DOMAIN hist.env_before[1]
    /\ "X" \in Written(1)
    /\ "X" \notin Written(2)
    /\ "Y" \in DOMAIN hist.env_before[1]
    /\ hist.env_before[1]["Y"] # hist.env_after[1]["Y"]
    /\ "Y" \in Written(1)
    /\ "Y" \in Written(2)

(***************************************************************************)
(* The selection claims, checked under SpecPkg.                            *)
(***************************************************************************)
\* The selection has been made (or has failed) in this invocation
Decided == IsSome(loc.potential) /\ pc \notin {"start", "select"}
SelectFailedWith(e) == IsNone(sel) /\ pc = "error" /\ outcome = Failed(e)
Potential == Unwrap(loc.potential)
WorkspaceRoot == Unwrap(loc.workspace)
Filter == args.package

\* The name of the package the descriptor of a directory declares, read from
\* the file system
PackageNameAt(d) ==
    LET m == ManifestOf(fs, d)
    IN  IF IsSome(m) /\ Unwrap(m).parse = "ok" /\ IsSome(Unwrap(m).package)
        THEN Some(Unwrap(Unwrap(m).package).name)
        ELSE None

\* What is wrong with a directory as a workspace member, if anything
MemberFault(d) ==
    LET m == ManifestOf(fs, d)
        path == d \o <<"Cargo.toml">>
    IN  IF IsNone(m) THEN Some(Err("Io", path))
        ELSE IF Unwrap(m).parse # "ok" THEN Some(Err(Unwrap(m).parse, path))
        ELSE IF IsSome(Unwrap(m).workspace)
        THEN Some(Err("UnexpectedWorkspace", path))
        ELSE IF IsNone(Unwrap(m).package)
        THEN Some(Err("NoPackageInManifest", path))
        ELSE None

\* The directories the member patterns of the workspace root expand to, in
\* expansion order, those of them that cannot be members, and those whose
\* package is named n
Expanded ==
    MemberDirs(fs, parent(WorkspaceRoot.path),
               Unwrap(WorkspaceRoot.manifest.workspace).members, 1)
Faults == SelectSeq(Expanded, LAMBDA d : IsSome(MemberFault(d)))
Named(n) == {d \in Range(Expanded) : PackageNameAt(d) = Some(n)}
RootIsNamed(n) == PackageNameAt(parent(WorkspaceRoot.path)) = Some(n)

\* C4: when no workspace root is found, the potential descriptor is selected
\* exactly when it declares a package and the filter is absent or equal to
\* that package's name; without a package the resolution fails with
\* NoPackageInManifest, with a package of another name than the filter with
\* PackageNotFound.
C4_NoWorkspaceSelection ==
    (Decided /\ IsNone(loc.workspace)) =>
        LET path == Potential.path
            name == PackageNameAt(parent(path))
        IN  IF IsNone(name)
            THEN SelectFailedWith(Err("NoPackageInManifest", path))
            ELSE IF IsSome(Filter) /\ Filter # name
            THEN SelectFailedWith(Err2("PackageNotFound", path, Filter))
            ELSE /\ IsSome(sel)
                 /\ Unwrap(sel).path = path
                 /\ package = Unwrap(name)

\* C4 witness: outside any workspace, a filter naming another package than the
\* one the descriptor declares has made the resolution fail.
C4_Witness ==
    /\ Decided
    /\ IsNone(loc.workspace)
    /\ Filter = Some("x")
    /\ IsSome(PackageNameAt(parent(Potential.path)))
    /\ outcome.state = "Err"
    /\ outcome.error.err = "PackageNotFound"

\* C5: with a workspace root and a filter N, a successful resolution selects a
\* package named N: the root's own package when that is named N, otherwise a
\* member's. When neither the root's package nor any expanded member is named
\* N the resolution fails; the failure is PackageNotFound whenever the checks
\* made before the lookup pass (every expanded directory is a valid member and
\* the potential descriptor belongs to the workspace).
C5_WorkspaceFilter ==
    (Decided /\ IsSome(loc.workspace) /\ IsSome(Filter)) =>
        LET N == Unwrap(Filter)
            unmatched == ~RootIsNamed(N) /\ Named(N) = {}
            in_workspace ==
                \/ Potential.path = WorkspaceRoot.path
                \/ parent(Potential.path) \in Range(Expanded)
        IN  /\ IsSome(sel) =>
                /\ package = N
                /\ IF RootIsNamed(N)
                   THEN Unwrap(sel).path = WorkspaceRoot.path
                   ELSE parent(Unwrap(sel).path) \in Named(N)
            /\ unmatched => IsNone(sel) /\ pc = "error" /\ outcome.state = "Err"
            /\ (unmatched /\ Faults = <<>> /\ in_workspace) =>
                SelectFailedWith(Err2("PackageNotFound", WorkspaceRoot.path,
                                      Filter))

\* C5 witness: the root declares a package of its own, a member declares a
\* package of the same name, and the filter of that name selected the root.
C5_Witness ==
    /\ Decided
    /\ IsSome(loc.workspace)
    /\ IsSome(Filter)
    /\ RootIsNamed(Unwrap(Filter))
    /\ Named(Unwrap(Filter)) # {}
    /\ Potential.path # WorkspaceRoot.path
    /\ IsSome(sel)
    /\ Unwrap(sel).path = WorkspaceRoot.path

\* C6: when the workspace root's descriptor differs from the potential
\* descriptor and the directory of the potential descriptor is not among the
\* directories the member patterns expanded to (the expansion having found
\* only valid members), the resolution fails with ManifestNotInWorkspace,
\* with or without a filter.
C6_ManifestNotInWorkspace ==
    (/\ Decided
     /\ IsSome(loc.workspace)
     /\ Potential.path # WorkspaceRoot.path
     /\ Faults = <<>>
     /\ parent(Potential.path) \notin Range(Expanded)) =>
        SelectFailedWith(Err2("ManifestNotInWorkspace", Potential.path,
                              WorkspaceRoot.path))

\* C6 witness: started in a directory that is not a member, with a filter
\* naming a package that is one, the resolution failed.
C6_Witness ==
    /\ Decided
    /\ IsSome(loc.workspace)
    /\ Potential.path # WorkspaceRoot.path
    /\ parent(Potential.path) \notin Range(Expanded)
    /\ IsSome(Filter)
    /\ Named(Unwrap(Filter)) # {}
    /\ Faults = <<>>
    /\ outcome.state = "Err"
    /\ outcome.error.err = "ManifestNotInWorkspace"

\* C7: whenever a workspace root is found, every directory a member pattern
\* matches is checked, whatever the filter and whichever package is asked for:
\* the resolution fails with the error of the first match, in expansion order,
\* whose descriptor cannot be read or parsed (Io, Toml), declares a workspace
\* (UnexpectedWorkspace) or declares no package (NoPackageInManifest). With no
\* such match the members give no error; in particular a pattern that matches
\* nothing is not an error.
C7_MembersChecked ==
    (Decided /\ IsSome(loc.workspace)) =>
        /\ Faults # <<>> => SelectFailedWith(Unwrap(MemberFault(Faults[1])))
        /\ Faults = <<>> =>
            \/ outcome.error.ok
            \/ outcome.error.err \in {"ManifestNotInWorkspace", "PackageNotFound"}
            \/ /\ outcome.error = Err("NoPackageInManifest", Potential.path)
               /\ IsNone(Filter)
        /\ (/\ Expanded = <<>>
            /\ Potential.path = WorkspaceRoot.path
            /\ IsSome(PackageNameAt(parent(Potential.path)))
            /\ IsNone(Filter)) => IsSome(sel)

\* C7 witness: without a filter, started at a root that declares a package of
\* its own, a matched directory that declares a workspace failed the
\* resolution although an earlier match was a valid member.
C7_Witness ==
    /\ Decided
    /\ IsSome(loc.workspace)
    /\ IsNone(Filter)
    /\ Potential.path = WorkspaceRoot.path
    /\ IsSome(PackageNameAt(parent(Potential.path)))
    /\ Len(Expanded) > 1
    /\ IsNone(MemberFault(Expanded[1]))
    /\ outcome.state = "Err"
    /\ outcome.error.err = "UnexpectedWorkspace"

(***************************************************************************)
(* The artifact claims, checked under SpecArt.                             *)
(***************************************************************************)
Kinds == {"Bin", "Example"}
\* The descriptor of the selected package, read from the file system, and the
\* targets of a kind it declares
Descriptor == Unwrap(ManifestOf(fs, parent(Unwrap(sel).path)))
DeclaredOf(type) ==
    IF type = "Bin" THEN Descriptor.bins ELSE Descriptor.examples
DeclaredNames(type) == {DeclaredOf(type)[i].name : i \in DOMAIN DeclaredOf(type)}

\* The file the naming convention gives a declared target without a path:
\* <dir>/<name>.rs, else <dir>/<name>/main.rs
ConventionPath(type, n) ==
    LET dir == parent(Unwrap(sel).path)
                \o (IF type = "Bin" THEN <<"src", "bin">> ELSE <<"examples">>)
    IN  IF dir \o <<n \o ".rs">> \in fs.files THEN Some(dir \o <<n \o ".rs">>)
        ELSE IF dir \o <<n, "main.rs">> \in fs.files
        THEN Some(dir \o <<n, "main.rs">>)
        ELSE None
ExpectedPath(type, decl) ==
    IF IsSome(decl.path) THEN decl.path ELSE ConventionPath(type, decl.name)

\* The artifacts of a kind: the map held after auto-discovery, and the list
\* in the value returned
MapOf(type) == IF type = "Bin" THEN arts.bins ELSE arts.examples
ListOf(type) ==
    IF type = "Bin" THEN Unwrap(outcome.project).bin_artifacts
    ELSE Unwrap(outcome.project).example_artifacts
\* Whether the target filters of the arguments keep a target
Kept(type, n) ==
    \/ ~args.lib /\ ~args.bins /\ ~args.examples /\ args.bin = {}
       /\ args.example = {}
    \/ IF type = "Bin" THEN args.bins \/ n \in args.bin
       ELSE args.examples \/ n \in args.example

Repeated(decls) ==
    {j \in DOMAIN decls : \E i \in 1..(j - 1) : decls[i].name = decls[j].name}
FirstRepeated(decls) ==
    decls[CHOOSE j \in Repeated(decls) : \A k \in Repeated(decls) : j <= k].name
Resolvable(type) ==
    \A i \in DOMAIN DeclaredOf(type) : IsSome(ExpectedPath(type, DeclaredOf(type)[i]))

\* C9: a descriptor that declares two binaries, or two examples, of the same
\* name never gets to auto-discovery: the resolution fails while the declared
\* targets are read, before any directory is scanned. With every declared path
\* resolved, the error is DuplicateBin, or DuplicateExample when the binaries
\* are in order, naming the repeated target.
C9_DuplicateNames ==
    IsSome(sel) =>
        LET dup_bins == Repeated(Descriptor.bins) # {}
            dup_examples == Repeated(Descriptor.examples) # {}
        IN  /\ (dup_bins \/ dup_examples) =>
                /\ pc \notin {"auto", "lib", "done"}
                /\ hist.scans = 0
            /\ (pc = "error" /\ dup_bins /\ Resolvable("Bin")) =>
                outcome = Failed(Err("DuplicateBin",
                                     <<FirstRepeated(Descriptor.bins)>>))
            /\ (/\ pc = "error"
                /\ ~dup_bins
                /\ Resolvable("Bin")
                /\ dup_examples
                /\ Resolvable("Example")) =>
                outcome = Failed(Err("DuplicateExample",
                                     <<FirstRepeated(Descriptor.examples)>>))

\* C9 witness: two examples of one name are declared, auto-discovery is on
\* and there are files it would find; the resolution has failed with
\* DuplicateExample and nothing was scanned.
C9_Witness ==
    /\ IsSome(sel)
    /\ pc = "error"
    /\ Repeated(Descriptor.examples) # {}
    /\ autoexamples_enabled(Descriptor)
    /\ W \o <<"examples", "a.rs">> \in fs.files
    /\ outcome.error.err = "DuplicateExample"
    /\ hist.scans = 0

\* All artifacts of the value returned
AllArtifacts ==
    Unwrap(outcome.project).lib_artifact
    \o Unwrap(outcome.project).bin_artifacts
    \o Unwrap(outcome.project).example_artifacts
DeclaredWith(a) ==
    \E i \in DOMAIN DeclaredOf(a.type) :
        DeclaredOf(a.type)[i] = Target(a.name, Some(a.path))

InitFilter ==
    \E with_lib \in BOOLEAN, lib \in BOOLEAN, bins \in BOOLEAN,
       examples \in BOOLEAN, bin \in SUBSET {"a", "p", "x"},
       example \in SUBSET {"a", "x"} :
        StartWith(ArtFs({<<"src", "main.rs">>, <<"src", "bin", "a.rs">>,
                         <<"examples", "a.rs">>, <<"examples", "b.rs">>}
                        \cup (IF with_lib THEN {<<"src", "lib.rs">>} ELSE {}),
                        Manifest(None, Some(Package("p", TRUE, TRUE)), None,
                                 <<Target("b", Some(<<"src", "custom.rs">>))>>,
                                 <<>>)),
                  W,
                  [DefaultArgs EXCEPT !.lib = lib, !.bins = bins,
                                      !.examples = examples, !.bin = bin,
                                      !.example = example],
                  <<>>)

SpecFilter == InitFilter /\ [][Resolve]_vars

\* Some specific-target filter is requested
FilterRequested ==
    args.lib \/ args.bins \/ args.examples \/ args.bin # {} \/ args.example # {}
\* The artifacts a map holds
Values(artifacts) == {artifacts[n] : n \in DOMAIN artifacts}
\* The artifacts of a map whose name is in a set
Restrict(artifacts, names) ==
    [n \in {k \in DOMAIN artifacts : k \in names} |-> artifacts[n]]

\* C11: the step that filters turns what declaration and discovery produced
\* into exactly the requested subset: with some specific-target filter the
\* library is kept only with --lib, a binary only with --bins or when named by
\* --bin, an example only with --examples or when named by --example; with no
\* filter everything is kept. The value returned lists exactly what is kept.
C11_FilterExact ==
    [][(pc = "lib" /\ pc' = "done") =>
        LET produced_lib ==
                lib_artifact_of(fs, root_dir, parsed_manifest, package)
            project == Unwrap(outcome'.project)
        IN  /\ arts'.lib = IF FilterRequested /\ ~args.lib THEN None
                           ELSE produced_lib
            /\ arts'.bins = IF FilterRequested /\ ~args.bins
                            THEN Restrict(arts.bins, args.bin) ELSE arts.bins
            /\ arts'.examples = IF FilterRequested /\ ~args.examples
                                THEN Restrict(arts.examples, args.example)
                                ELSE arts.examples
            /\ project.lib_artifact = arts'.lib
            /\ Range(project.bin_artifacts) = Values(arts'.bins)
            /\ Len(project.bin_artifacts) = Cardinality(DOMAIN arts'.bins)
            /\ Range(project.example_artifacts) = Values(arts'.examples)
            /\ Len(project.example_artifacts) = Cardinality(DOMAIN arts'.examples)
       ]_vars

\* C11 witness: --bin a and --examples were requested for a package that has
\* a library and three binaries: the value returned holds the binary `a`
\* alone, both examples and no library.
C11_Witness ==
    /\ pc = "done"
    /\ args.bin = {"a"}
    /\ ~args.bins
    /\ args.examples
    /\ ~args.lib
    /\ W \o <<"src", "lib.rs">> \in fs.files
    /\ Unwrap(outcome.project).lib_artifact = None
    /\ Unwrap(outcome.project).bin_artifacts =
           <<Artifact("a", <<"src", "bin", "a.rs">>, "Bin")>>
    /\ Len(Unwrap(outcome.project).example_artifacts) = 2

(***************************************************************************)
(* The output root, checked under SpecTarget.                              *)
(***************************************************************************)
\* The project of the output-root scenarios: /w holds the package `p`, and a
\* [workspace] with the member /w/a or none; /w/a holds the package `q`; the
\* settings file, if any, is /w/.cargo/config.toml.
TargetFs(with_workspace, cfg) ==
    [dirs |-> {Root, W, W \o <<"a">>},
     files |-> {},
     links |-> <<>>,
     manifest |-> [d \in {W, W \o <<"a">>} |->
                      IF d = W
                      THEN Some(Manifest(IF with_workspace
                                         THEN Some(Workspace(<<<<"a">>>>))
                                         ELSE None,
                                         Some(Package("p", TRUE, TRUE)),
                                         None, <<>>, <<>>))
                      ELSE Some(Plain("q"))],
     cargo_config |-> [d \in {W} |-> cfg]]

Build(dir) == [target_dir |-> dir]
\* The settings met: none, an empty file, build.target-dir relative or
\* absolute, and an [env] table that defines CARGO_TARGET_DIR
TargetConfigs ==
    {None,
     Some(Config(None, None)),
     Some(Config(Some(Build(None)), None)),
     Some(Config(Some(Build(Some(<<"out">>))), None)),
     Some(Config(Some(Build(Some(<<"/", "out">>))), None)),
     Some(Config(Some(Build(Some(<<"out">>))),
                 Some([k \in {"CARGO_TARGET_DIR"} |-> EnvString(<<"tbl">>)])))}

\* The process environment that defines the two variables as given
TargetEnv(dedicated, general) ==
    [k \in (IF IsSome(dedicated) THEN {"CARGO_BUILD_TARGET_DIR"} ELSE {})
           \cup (IF IsSome(general) THEN {"CARGO_TARGET_DIR"} ELSE {}) |->
        IF k = "CARGO_BUILD_TARGET_DIR" THEN OsStr(Unwrap(dedicated))
        ELSE OsStr(Unwrap(general))]

\* Output-root scenarios: every combination of --target-dir, the two
\* variables, the settings, a workspace or none, started in /w or /w/a.
InitTarget ==
    \E with_workspace \in BOOLEAN, cfg \in TargetConfigs,
       wd \in {W, W \o <<"a">>},
       override \in {None, Some(<<"t">>), Some(<<"/", "t">>)},
       dedicated \in {None, Some(<<"eb">>), Some(<<"/", "eb">>)},
       general \in {None, Some(<<"e">>), Some(<<"/", "e">>)} :
        StartWith(TargetFs(with_workspace, cfg), wd,
                  [DefaultArgs EXCEPT !.target_dir = override],
                  TargetEnv(dedicated, general))

SpecTarget == InitTarget /\ [][Resolve]_vars

\* A path made absolute against the working directory
Absolute(p) == IF p[1] = "/" THEN p ELSE cwd \o p
\* The output-directory name of the settings held, if they give one
SettingsTargetDir ==
    IF /\ IsSome(config)
       /\ IsSome(Unwrap(config).config.build)
    THEN Unwrap(Unwrap(config).config.build).target_dir
    ELSE None
\* The workspace root directory, or the package directory without a workspace
BaseDir ==
    IF IsSome(loc.workspace) THEN parent(Unwrap(loc.workspace).path)
    ELSE parent(Unwrap(sel).path)

\* C12: the output root is the --target-dir override if given; else the value
\* of CARGO_BUILD_TARGET_DIR if the process environment holds one when the
\* root is computed; else the value of CARGO_TARGET_DIR; else the settings'
\* build.target-dir joined to the workspace root directory (the package
\* directory without a workspace); else "target" in that directory. A relative
\* override, or variable value, is taken from the working directory.
C12_TargetDirPrecedence ==
    IsSome(target_dir) =>
        /\ Unwrap(target_dir) =
               IF IsSome(args.target_dir) THEN Absolute(Unwrap(args.target_dir))
               ELSE IF "CARGO_BUILD_TARGET_DIR" \in DOMAIN env
               THEN Absolute(env["CARGO_BUILD_TARGET_DIR"].s)
               ELSE IF "CARGO_TARGET_DIR" \in DOMAIN env
               THEN Absolute(env["CARGO_TARGET_DIR"].s)
               ELSE IF IsSome(SettingsTargetDir)
               THEN join(BaseDir, Unwrap(SettingsTargetDir))
               ELSE BaseDir \o <<"target">>
        /\ pc = "done" =>
               Unwrap(outcome.project).target_dir = Unwrap(target_dir)

\* C12 witness: no override, both variables defined, the settings give a
\* directory name: the dedicated variable's relative value, taken from the
\* working directory /w/a, is the output root.
C12_Witness ==
    /\ pc = "done"
    /\ IsNone(args.target_dir)
    /\ cwd = W \o <<"a">>
    /\ "CARGO_TARGET_DIR" \in DOMAIN env
    /\ IsSome(SettingsTargetDir)
    /\ Unwrap(outcome.project).target_dir = W \o <<"a", "eb">>

(***************************************************************************)
(* The paths of built artifacts, checked under SpecBuild.                  *)
(***************************************************************************)
\* A resolved project, or the caller's question about it
Query ==
    \/ Resolve
    \/ ArtifactPath

\* Build scenarios: the package `p` of /w resolved with every profile and
\* with or without --target-dir, then asked for the path of one artifact.
InitBuild ==
    \E release \in BOOLEAN,
       profile \in {None, Some(Dev), Some(Release), Some(Custom("fast")),
                    Some(Custom("dev"))},
       override \in {None, Some(<<"/", "out">>)} :
        StartWith(ArtFs({<<"src", "main.rs">>}, Plain("p")), W,
                  [DefaultArgs EXCEPT !.release = release,
                                      !.profile = profile,
                                      !.target_dir = override],
                  <<>>)

SpecBuild == InitBuild /\ [][Query]_vars

Asked == lookup.op = "artifact"
\* The profile the arguments stand for
AskedProfile ==
    IF IsSome(args.profile) THEN Unwrap(args.profile)
    ELSE IF args.release THEN Release ELSE Dev
\* Whether a kind of artifact can be built in a format
Compatible(type, crate_type) ==
    \/ type \in {"Bin", "Example"} /\ crate_type = "Bin"
    \/ type \in {"Lib", "Example"} /\ crate_type \in {"Lib", "Staticlib", "Cdylib"}

\* C13: Subcommand::artifact(a, target, format) returns
\* <output root>/<target>/<profile directory>/<kind directory>/<file name>
\* with a target, <output root>/<profile directory>/<kind directory>/<file
\* name> without one, the file name then being that for the host triple; the
\* profile directory is "debug" for dev, "release" for release and the name of
\* any other profile; the kind directory is "examples" for an example and
\* nothing for a library or a binary.
C13_ArtifactPath ==
    (Asked /\ lookup.res.ok) =>
        LET a == lookup.key.artifact
            target == lookup.key.target
            root == Unwrap(target_dir)
            triple == IF IsSome(target) THEN Unwrap(target) ELSE HostTriple
            profile_dir == IF AskedProfile = Dev THEN "debug"
                           ELSE IF AskedProfile = Release THEN "release"
                           ELSE AskedProfile[2]
            kind_dir == IF a.type = "Example" THEN <<"examples">> ELSE <<>>
            name == Artifact_file_name(a, lookup.key.crate_type, triple).val
        IN  lookup.res.val =
                (IF IsSome(target)
                 THEN root \o <<Concat(Unwrap(target))>> ELSE root)
                \o <<profile_dir>> \o kind_dir \o <<name>>

\* C13 witness: an example asked for a Windows target under a profile of the
\* caller's own, with the output root overridden.
C13_Witness ==
    /\ Asked
    /\ lookup.key.artifact.type = "Example"
    /\ lookup.key.crate_type = "Bin"
    /\ lookup.key.artifact.name = <<"a">>
    /\ lookup.res = Ok(<<"/", "out", "x86_64-pc-windows-msvc", "fast",
                         "examples", "a.exe">>)

\* C14: Artifact::file_name is a function of the kind, the name, the format
\* and the triple: in the executable format a binary or example is <name>.exe
\* for a triple that names Windows, <name>.wasm for one that names
\* WebAssembly, <name> otherwise; in the rlib, static and dynamic library
\* formats a library or example is lib<n>.rlib, lib<n>.a, lib<n>.so with n the
\* name with every hyphen turned into an underscore; a library in the
\* executable format and a binary in a library format panic.
C14_FileName ==
    Asked =>
        LET a == lookup.key.artifact
            ty == lookup.key.crate_type
            triple == IF IsSome(lookup.key.target) THEN Unwrap(lookup.key.target)
                      ELSE HostTriple
            windows == \E i \in DOMAIN triple : triple[i] = "windows"
            wasm == \E i \in DOMAIN triple : triple[i] = "wasm"
            n == Concat([i \in DOMAIN a.name |->
                            IF a.name[i] = "-" THEN "_" ELSE a.name[i]])
            expected ==
                IF ty = "Bin"
                THEN Concat(a.name) \o (IF windows THEN ".exe"
                                        ELSE IF wasm THEN ".wasm" ELSE "")
                ELSE "lib" \o n \o (IF ty = "Lib" THEN ".rlib"
                                    ELSE IF ty = "Staticlib" THEN ".a"
                                    ELSE ".so")
        IN  IF Compatible(a.type, ty)
            THEN /\ lookup.res.ok
                 /\ lookup.res.val[Len(lookup.res.val)] = expected
                 /\ pc = "done"
            ELSE /\ ~lookup.res.ok
                 /\ lookup.res.err = "panic"
                 /\ pc = "panic"

\* C14 witness: a library whose name has hyphens, asked in the static library
\* format.
C14_Witness ==
    /\ Asked
    /\ lookup.key.artifact = Artifact(<<"a", "-", "a">>, <<"src", "custom.rs">>,
                                      "Lib")
    /\ lookup.key.crate_type = "Staticlib"
    /\ lookup.res.ok
    /\ lookup.res.val[Len(lookup.res.val)] = "liba_a.a"

(***************************************************************************)
(* Two invocations in one process, checked under SpecTwice.                *)
(***************************************************************************)
\* Subcommand::new, called again when it has returned
Twice ==
    \/ Resolve
    \/ Restart

\* Repetition scenarios: the package `p` of /w with the main binary, the
\* binary `a` and two examples, with or without a settings file (one that has
\* no [env] table, so that no invocation changes the process environment),
\* with or without CARGO_TARGET_DIR, in the dev or the release profile.
InitTwice ==
    \E cfg \in {None, Some(Config(Some(Build(Some(<<"out">>))), None))},
       general \in {None, Some(<<"/", "e">>)},
       release \in BOOLEAN,
       files \in {{<<"src", "main.rs">>},
                  {<<"src", "main.rs">>, <<"src", "bin", "a.rs">>,
                   <<"examples", "a.rs">>, <<"examples", "b.rs">>}} :
        StartWith([ArtFs(files, Plain("p")) EXCEPT
                       !.cargo_config = [d \in {W} |-> cfg]],
                  W, [DefaultArgs EXCEPT !.release = release],
                  TargetEnv(None, general))

SpecTwice == InitTwice /\ [][Twice]_vars

\* An invocation has returned after an earlier one, from the same process
\* environment as the first started with
Repeated2 ==
    /\ pc = "done"
    /\ Len(hist.results) > 0
    /\ hist.results[1].state = "Ok"
    /\ env = hist.env0
FirstProject == Unwrap(hist.results[1].project)
ThisProject == Unwrap(outcome.project)

\* C15 as stated: a second invocation with the same arguments, file system
\* and starting environment returns a value identical to the first's: the
\* same package, descriptor paths, output root, profile and host triple, and
\* the same artifacts in the same order.
C15_AsClaimed == Repeated2 => ThisProject = FirstProject

\* C15, what does hold: the two values agree in every field, and hold the
\* same artifacts, but the binaries and the examples can be listed in
\* another order.
C15_SameUpToOrder ==
    Repeated2 =>
        /\ [ThisProject EXCEPT !.bin_artifacts = <<>>, !.example_artifacts = <<>>]
           = [FirstProject EXCEPT !.bin_artifacts = <<>>,
                                  !.example_artifacts = <<>>]
        /\ Range(ThisProject.bin_artifacts) = Range(FirstProject.bin_artifacts)
        /\ Len(ThisProject.bin_artifacts) = Len(FirstProject.bin_artifacts)
        /\ Range(ThisProject.example_artifacts)
           = Range(FirstProject.example_artifacts)
        /\ Len(ThisProject.example_artifacts) = Len(FirstProject.example_artifacts)

\* C15 witness: the second invocation lists the two binaries the other way
\* round.
C15_Witness ==
    /\ Repeated2
    /\ Len(ThisProject.bin_artifacts) = 2
    /\ ThisProject.bin_artifacts[1] = FirstProject.bin_artifacts[2]
    /\ ThisProject.bin_artifacts[2] = FirstProject.bin_artifacts[1]

(***************************************************************************)
(* Failures of the resolution, checked under SpecEnv.                      *)
(***************************************************************************)
\* C16 as stated: every failure the file system or the settings cause, a
\* relative [env] entry whose path cannot be canonicalized included, reaches
\* the caller of Subcommand::new as an error value: the process is never
\* aborted, and a project is returned only when it is complete.
C16_AsClaimed ==
    /\ pc # "panic"
    /\ outcome.state \in {"none", "Ok", "Err"}
    /\ outcome.state = "Ok" => pc = "done" /\ IsSome(outcome.project)
    /\ outcome.state = "Err" => pc = "error" /\ IsNone(outcome.project)

(***************************************************************************)
(* The searches for the descriptor and the workspace root: --manifest-path *)
(* is checked under SpecPath, the search from the working directory under  *)
(* SpecPkg.                                                                *)
(***************************************************************************)
\* The project of the --manifest-path scenarios: /w and /w/a can hold a
\* descriptor, /w/b holds none, /w/ln is a link to /w/a, /w/a/main.rs is a
\* file of another name.
PathFs(mw, ma) ==
    [dirs |-> {Root, W, W \o <<"a">>, W \o <<"b">>},
     files |-> {W \o <<"a", "main.rs">>},
     links |-> [l \in {W \o <<"ln">>} |-> W \o <<"a">>],
     manifest |-> [d \in {W, W \o <<"a">>} |-> IF d = W THEN mw ELSE ma],
     cargo_config |-> <<>>]

ManifestPaths ==
    {<<"Cargo.toml">>, <<"a", "Cargo.toml">>, W \o <<"a", "Cargo.toml">>,
     <<"b", "Cargo.toml">>, <<"a">>, <<"a", "main.rs">>,
     <<"ln", "Cargo.toml">>, <<"a", "..", "Cargo.toml">>,
     <<"..", "Cargo.toml">>}

\* --manifest-path scenarios: every path of ManifestPaths, or none, from each
\* of the three directories, over the descriptors /w and /w/a can hold.
InitPath ==
    \E mw \in {None, Some(BrokenManifest("Toml")), Some(Plain("p")),
               Some(Manifest(Some(Workspace(<<<<"a">>>>)), None, None,
                             <<>>, <<>>)),
               Some(Manifest(Some(Workspace(<<<<"a">>>>)),
                             Some(Package("p", TRUE, TRUE)), None, <<>>, <<>>))},
       ma \in {None, Some(BrokenManifest("Toml")), Some(Plain("q")),
               Some(Manifest(Some(Workspace(<<>>)),
                             Some(Package("q", TRUE, TRUE)), None, <<>>, <<>>))},
       wd \in {W, W \o <<"a">>, W \o <<"b">>},
       path \in {None} \cup {Some(mp) : mp \in ManifestPaths} :
        StartWith(PathFs(mw, ma), wd,
                  [DefaultArgs EXCEPT !.manifest_path = path], <<>>)

SpecPath == InitPath /\ [][Resolve]_vars

\* Walking outward from a directory: the positions, in its ancestors (itself
\* first), of the directories that hold a descriptor, of those whose
\* descriptor cannot be parsed, and of those whose descriptor declares a
\* workspace
Outward(start) == ancestors(start)
Holding(start) ==
    {i \in DOMAIN Outward(start) : IsSome(ManifestOf(fs, Outward(start)[i]))}
Unparsable(start) ==
    {i \in Holding(start) :
        Unwrap(ManifestOf(fs, Outward(start)[i])).parse # "ok"}
Declaring(start) ==
    {i \in Holding(start) \ Unparsable(start) :
        IsSome(Unwrap(ManifestOf(fs, Outward(start)[i])).workspace)}
Nearest(I) == CHOOSE i \in I : \A j \in I : i <= j

\* What the two searches from a directory that has a descriptor at or above
\* it must have given: an error when the nearest descriptor, or one met
\* before a workspace is found, cannot be parsed; otherwise the nearest
\* descriptor, and the nearest descriptor that declares a workspace, if any.
LocatedFrom(start) ==
    LET stops == Declaring(start) \cup Unparsable(start)
    IN  IF \/ Nearest(Holding(start)) \in Unparsable(start)
           \/ stops # {} /\ Nearest(stops) \in Unparsable(start)
        THEN /\ IsNone(loc.potential)
             /\ pc = "error"
             /\ outcome.state = "Err"
             /\ outcome.error.err \in {"Io", "Toml"}
        ELSE /\ IsSome(loc.potential)
             /\ Potential.path =
                    Outward(start)[Nearest(Holding(start))] \o <<"Cargo.toml">>
             /\ IF Declaring(start) = {} THEN IsNone(loc.workspace)
                ELSE /\ IsSome(loc.workspace)
                     /\ WorkspaceRoot.path =
                            Outward(start)[Nearest(Declaring(start))]
                            \o <<"Cargo.toml">>

\* The directory of --manifest-path, and whether the path names an existing
\* file called Cargo.toml
PathDir == canonicalize(fs, cwd, parent(Unwrap(args.manifest_path)))
PathValid ==
    LET path == Unwrap(args.manifest_path)
    IN  /\ path[Len(path)] = "Cargo.toml"
        /\ PathDir.ok
        /\ IsSome(ManifestOf(fs, PathDir.val))

\* C17: with --manifest-path, a path whose file name is not Cargo.toml or
\* that is not an existing file fails with ManifestPathNotFound before
\* anything is searched; otherwise the potential descriptor is the Cargo.toml
\* of the path's own directory, never one of an ancestor, and the workspace
\* is searched from that directory upward.
C17_ManifestPath ==
    (IsSome(args.manifest_path) /\ pc # "start") =>
        IF ~PathValid
        THEN /\ pc = "error"
             /\ outcome = Failed(Err("ManifestPathNotFound", <<>>))
             /\ loc = NoLoc
        ELSE /\ LocatedFrom(PathDir.val)
             /\ IsSome(loc.potential) =>
                    Potential.path = PathDir.val \o <<"Cargo.toml">>

\* C17 witness: started in /w with the path ln/Cargo.toml, where ln is a link
\* to /w/a: the descriptor of /w/a is the potential one, and the workspace
\* root /w was found above it.
C17_Witness ==
    /\ args.manifest_path = Some(<<"ln", "Cargo.toml">>)
    /\ cwd = W
    /\ IsSome(loc.potential)
    /\ Potential.path = W \o <<"a", "Cargo.toml">>
    /\ IsSome(loc.workspace)
    /\ WorkspaceRoot.path = W \o <<"Cargo.toml">>

\* C19: without --manifest-path both searches walk outward from the working
\* directory, each to its own nearest match: when no ancestor holds a
\* descriptor the resolution fails with ManifestNotFound; otherwise the
\* potential descriptor is the nearest one, and the workspace root is the
\* nearest descriptor that declares a workspace, nearer descriptors that do
\* not being skipped, or none when no ancestor's descriptor declares one. A
\* descriptor that cannot be parsed, met by either walk before its match,
\* gives that read's error instead.
C19_NearestMatch ==
    (IsNone(args.manifest_path) /\ pc # "start") =>
        IF Holding(cwd) = {}
        THEN /\ pc = "error"
             /\ outcome = Failed(Err("ManifestNotFound", <<>>))
             /\ loc = NoLoc
        ELSE LocatedFrom(cwd)

\* C19 witness: started in /w/a, whose descriptor declares no workspace, below
\* /w, whose descriptor does: the two searches returned different descriptors.
C19_Witness ==
    /\ IsNone(args.manifest_path)
    /\ cwd = W \o <<"a">>
    /\ Declaring(cwd) # {}
    /\ Nearest(Holding(cwd)) < Nearest(Declaring(cwd))
    /\ IsSome(loc.potential)
    /\ Potential.path = W \o <<"a", "Cargo.toml">>
    /\ IsSome(loc.workspace)
    /\ WorkspaceRoot.path = W \o <<"Cargo.toml">>

(***************************************************************************)
(* The place of the propagation step in an invocation, checked under       *)
(* SpecEnv.                                                                *)
(***************************************************************************)
\* The steps of an invocation that come after the propagation step
AfterPropagation == {"target_dir", "declared", "auto", "lib", "done"}

\* The propagation steps completed so far, over all invocations
Propagations == Len(hist.env_before)

\* C18: the process environment is written by the propagation step alone,
\* which runs with the settings found, the package selected, no output root
\* computed and no artifact resolved; an invocation that found settings and
\* went past that step has run it once, so that the r-th such invocation of a
\* process has seen r propagation steps; every other step, and an invocation
\* without settings, leaves the environment and that count as they are.
C18_PropagationOnce ==
    [][/\ (env' # env \/ hist.writes' # hist.writes
              \/ hist.env_before' # hist.env_before) =>
             /\ pc = "setenv"
             /\ IsSome(config)
             /\ IsSome(sel)
             /\ IsNone(target_dir)
             /\ arts = NoArts
             /\ hist.scans = 0
             /\ run' = run
       /\ (pc = "setenv" /\ IsSome(config) /\ pc' \in AfterPropagation) =>
             /\ Propagations' = Propagations + 1
             /\ hist'.env_before[Propagations'] = env
             /\ hist'.env_after[Propagations'] = env'
       /\ (pc' \in AfterPropagation /\ IsSome(config')) => Propagations' = run'
       /\ (pc' \in AfterPropagation /\ IsNone(config')) => Propagations' = 0
       /\ pc' = "target_dir" => pc = "setenv"
      ]_vars

\* C18 witness: the second invocation of a process is done; the settings were
\* found, each invocation propagated once, and the first one changed the
\* environment.
C18_Witness ==
    /\ pc = "done"
    /\ run = 2
    /\ IsSome(config)
    /\ Propagations = 2
    /\ hist.writes[1] # <<>>
    /\ hist.env_before[1] # hist.env_after[1]
    /\ env = hist.env_after[2]

(***************************************************************************)
(* The settings file an invocation uses, checked under SpecSettings.       *)
(***************************************************************************)
\* The project of the settings scenarios: a package `p` in /w, with or
\* without a [workspace] whose member is the package `q` of /w/a; /, /w and
\* /w/a can each hold a settings file.
SettingsFs(with_workspace, cr, cw, ca) ==
    [dirs |-> {Root, W, W \o <<"a">>},
     files |-> {},
     links |-> <<>>,
     manifest |-> [d \in {W, W \o <<"a">>} |->
                      IF d = W
                      THEN Some(Manifest(IF with_workspace
                                         THEN Some(Workspace(<<<<"a">>>>))
                                         ELSE None,
                                         Some(Package("p", TRUE, TRUE)),
                                         None, <<>>, <<>>))
                      ELSE Some(Plain("q"))],
     cargo_config |-> [d \in {Root, W, W \o <<"a">>} |->
                          IF d = Root THEN cr ELSE IF d = W THEN cw ELSE ca]]

\* The settings file of a directory: none, a malformed one, or one that names
\* the output directory and sets the variable X after the directory
SettingsOf(tag) ==
    {None, Some(BrokenConfig("Toml")),
     Some(Config(Some(Build(Some(<<"out-" \o tag>>))),
                 Some([k \in {"X"} |-> EnvString(<<tag>>)])))}

InitSettings ==
    \E with_workspace \in BOOLEAN,
       cr \in SettingsOf("root") \ {Some(BrokenConfig("Toml"))},
       cw \in SettingsOf("w"), ca \in SettingsOf("a"),
       wd \in {W, W \o <<"a">>},
       filter \in {None, Some("p"), Some("q")} :
        StartWith(SettingsFs(with_workspace, cr, cw, ca), wd,
                  [DefaultArgs EXCEPT !.package = filter], <<>>)

SpecSettings == InitSettings /\ [][Resolve]_vars

\* The settings search of the invocation is over
SettingsDecided == IsSome(sel) /\ pc # "config"

\* What an invocation whose settings search starts in a directory must show
\* once the search is over: with no settings file at or above that directory,
\* no settings, no failure, an environment left as it was and, once computed,
\* the output root "target" of the base directory; otherwise the settings of
\* the nearest such directory, or the error of reading them.
SettingsFrom(start) ==
    LET up == ancestors(start)
        hits == {i \in DOMAIN up : IsSome(ConfigOf(fs, up[i]))}
        dir == up[Nearest(hits)]
        file == Unwrap(ConfigOf(fs, dir))
    IN  IF hits = {}
        THEN /\ IsNone(config)
             /\ pc \notin {"error", "panic"}
             /\ env = hist.env0
             /\ IsSome(target_dir) =>
                    Unwrap(target_dir) = BaseDir \o <<"target">>
        ELSE IF file.parse # "ok"
        THEN /\ IsNone(config)
             /\ pc = "error"
             /\ outcome = Failed(Err(file.parse,
                                     dir \o <<".cargo", "config.toml">>))
        ELSE /\ IsSome(config)
             /\ Unwrap(config).workspace = dir
             /\ Unwrap(config).config = file

\* The directory of the selected package, and the directory the settings
\* search is said to start from: the workspace root's when there is one
PackageDir == parent(Unwrap(sel).path)
WorkspaceFirstDir ==
    IF IsSome(loc.workspace) THEN parent(WorkspaceRoot.path) ELSE PackageDir

\* C20 as claimed: the settings used are those of the nearest directory with
\* a settings file at or above the workspace root directory when there is a
\* workspace root, at or above the selected package's directory otherwise;
\* with no such directory the resolution goes on without settings.
C20_AsClaimed == SettingsDecided => SettingsFrom(WorkspaceFirstDir)

\* C20, as the code has it: the settings used are those of the nearest
\* directory with a settings file at or above the selected package's
\* directory, whether or not there is a workspace root; with no such
\* directory the resolution goes on without settings, with the default
\* output-directory name and the environment left as it was.
C20_SettingsFromPackageDir == SettingsDecided => SettingsFrom(PackageDir)

\* C20 witness: the member /w/a of the workspace /w was selected; both
\* directories hold a settings file, and the member's is the one in use.
C20_Witness ==
    /\ pc = "done"
    /\ IsSome(loc.workspace)
    /\ parent(WorkspaceRoot.path) = W
    /\ PackageDir = W \o <<"a">>
    /\ IsSome(ConfigOf(fs, W))
    /\ Unwrap(ConfigOf(fs, W)).parse = "ok"
    /\ IsSome(config)
    /\ Unwrap(config).workspace = W \o <<"a">>
    /\ env = [k \in {"X"} |-> OsStr(<<"a">>)]

(***************************************************************************)
(* The selection without a filter inside a workspace, checked under        *)
(* SpecPkg.                                                                *)
(***************************************************************************)
\* C21: with a workspace root and no --package filter, a selection that is
\* made is the potential descriptor itself, and none is made when that
\* descriptor declares no package: once the checks that come first pass
\* (every expanded directory is a valid member, the potential descriptor
\* belongs to the workspace) the resolution fails with NoPackageInManifest
\* for a potential descriptor without a package, a virtual workspace root
\* included, and selects the potential descriptor otherwise.
C21_PotentialSelected ==
    (Decided /\ IsSome(loc.workspace) /\ IsNone(Filter)) =>
        LET in_workspace ==
                \/ Potential.path = WorkspaceRoot.path
                \/ parent(Potential.path) \in Range(Expanded)
            packaged == IsSome(Potential.manifest.package)
        IN  /\ IsSome(sel) => Unwrap(sel) = Potential
            /\ ~packaged => IsNone(sel) /\ pc = "error" /\ outcome.state = "Err"
            /\ (Faults = <<>> /\ in_workspace) =>
                   IF packaged
                   THEN IsSome(sel) /\ Unwrap(sel) = Potential
                   ELSE SelectFailedWith(Err("NoPackageInManifest",
                                             Potential.path))

\* C21 witness: started at a virtual workspace root whose only member is a
\* valid package, without a filter, the resolution failed with
\* NoPackageInManifest for the root's descriptor.
C21_Witness ==
    /\ Decided
    /\ IsSome(loc.workspace)
    /\ IsNone(Filter)
    /\ Potential.path = WorkspaceRoot.path
    /\ IsNone(Potential.manifest.package)
    /\ Faults = <<>>
    /\ Named("q") # {}
    /\ SelectFailedWith(Err("NoPackageInManifest", Potential.path))

(***************************************************************************)
(* The sources of the artifacts, checked under SpecAuto.                   *)
(***************************************************************************)
\* The project of the source scenarios: one package `p` in /w, outside any
\* workspace, with the given source files and descriptor.
AutoFs(files, manifest) ==
    [dirs |-> {Root, W, W \o <<"src">>, W \o <<"src", "bin">>,
               W \o <<"src", "bin", "b">>, W \o <<"examples">>,
               W \o <<"examples", "b">>},
     files |-> {W \o f : f \in files},
     links |-> <<>>,
     manifest |-> [d \in {W} |-> Some(manifest)],
     cargo_config |-> <<>>]

AutoFiles ==
    {<<"src", "main.rs">>, <<"src", "lib.rs">>, <<"src", "bin", "a.rs">>,
     <<"src", "bin", "p.rs">>, <<"src", "bin", "b", "main.rs">>,
     <<"examples", "a.rs">>, <<"examples", "b", "main.rs">>}
\* The [[bin]] tables, [[example]] tables and [lib] table a descriptor can
\* hold: targets left to the naming convention, targets with a path of their
\* own, a target with the path of the main binary
BinDecls ==
    {<<>>, <<Target("a", None)>>, <<Target("b", None)>>,
     <<Target("b", Some(<<"src", "custom.rs">>))>>,
     <<Target("a", Some(<<"src", "bin", "a.rs">>))>>,
     <<Target("b", Some(<<"src", "main.rs">>))>>}
ExampleDecls ==
    {<<>>, <<Target("a", None)>>, <<Target("b", None)>>,
     <<Target("b", Some(<<"examples", "a.rs">>))>>}
LibDecls ==
    {None, Some([name |-> None, path |-> None]),
     Some([name |-> Some("l"), path |-> Some(<<"src", "custom.rs">>)])}

\* Source scenarios: every set of source files, every descriptor over the
\* tables above with each auto-discovery toggle on or off, resolved without a
\* target filter.
InitAuto ==
    \E files \in SUBSET AutoFiles, bins \in BinDecls, examples \in ExampleDecls,
       lib \in LibDecls, autobins \in BOOLEAN, autoexamples \in BOOLEAN :
        StartWith(AutoFs(files,
                         Manifest(None, Some(Package("p", autobins, autoexamples)),
                                  lib, bins, examples)),
                  W, DefaultArgs, <<>>)

SpecAuto == InitAuto /\ [][Resolve]_vars

\* A declared target of the artifact's kind and name that gives no path
LeftToConvention(a) ==
    /\ a.type \in Kinds
    /\ \E i \in DOMAIN DeclaredOf(a.type) :
           DeclaredOf(a.type)[i] = Target(a.name, None)

\* C22 as claimed: every artifact of the value returned has a source path
\* relative to the package root, whether it is a declared target with a path,
\* a declared target left to the naming convention, an auto-discovered target
\* or the library.
C22_AsClaimed ==
    pc = "done" => \A i \in DOMAIN AllArtifacts : is_relative(AllArtifacts[i].path)

\* C22, as the code has it: in the value returned the library, the declared
\* targets with a path of their own and the auto-discovered targets have a
\* path relative to the package root; a declared target left to the naming
\* convention has the absolute path of the file found, the package root
\* followed by the relative path of the convention.
C22_RelativeUnlessConvention ==
    pc = "done" =>
        \A i \in DOMAIN AllArtifacts :
            LET a == AllArtifacts[i]
            IN  IF LeftToConvention(a)
                THEN /\ is_absolute(a.path)
                     /\ starts_with(a.path, parent(Unwrap(sel).path))
                     /\ a.path \in fs.files
                ELSE /\ is_relative(a.path)
                     /\ a.type = "Lib" \/ DeclaredWith(a)
                            \/ parent(Unwrap(sel).path) \o a.path \in fs.files

\* C22 witness: the value returned holds the declared binary `b`, found by
\* the naming convention as /w/src/bin/b/main.rs, next to the discovered
\* binary `a` with the relative path src/bin/a.rs and a library.
C22_Witness ==
    /\ pc = "done"
    /\ Artifact("b", W \o <<"src", "bin", "b", "main.rs">>, "Bin")
           \in Range(Unwrap(outcome.project).bin_artifacts)
    /\ Artifact("a", <<"src", "bin", "a.rs">>, "Bin")
           \in Range(Unwrap(outcome.project).bin_artifacts)
    /\ Unwrap(outcome.project).lib_artifact =
           Some(Artifact("p", <<"src", "lib.rs">>, "Lib"))

\* The declared targets have been read in this invocation
DeclaredRead == IsSome(target_dir) /\ pc # "declared"
\* The names of the declared targets of a kind for which there is neither a
\* path of their own nor a file of the naming convention, in declaration order
Sourceless(type) ==
    SelectSeq(DeclaredOf(type), LAMBDA decl : IsNone(ExpectedPath(type, decl)))

\* C23: once the declared targets are read, a declared binary without a path
\* of its own and without src/bin/<name>.rs or src/bin/<name>/main.rs has
\* failed the resolution with BinNotFound carrying its name; else a declared
\* example in the same situation under examples/ has failed it with
\* ExampleNotFound; else every declared target has an artifact whose path is
\* its own path when it gives one (whether or not that file exists), else
\* the file <dir>/<name>.rs when it exists, else <dir>/<name>/main.rs.
C23_DeclaredSource ==
    DeclaredRead =>
        IF Sourceless("Bin") # <<>>
        THEN /\ pc = "error"
             /\ outcome = Failed(Err("BinNotFound", <<Sourceless("Bin")[1].name>>))
        ELSE IF Sourceless("Example") # <<>>
        THEN /\ pc = "error"
             /\ outcome = Failed(Err("ExampleNotFound",
                                     <<Sourceless("Example")[1].name>>))
        ELSE /\ pc # "error"
             /\ pc \in {"auto", "lib"} =>
                    \A type \in Kinds : \A i \in DOMAIN DeclaredOf(type) :
                        LET decl == DeclaredOf(type)[i]
                            dir == PackageDir \o KindDir(type)
                            found == MapOf(type)[decl.name].path
                        IN  /\ decl.name \in DOMAIN MapOf(type)
                            /\ IF IsSome(decl.path) THEN found = Unwrap(decl.path)
                               ELSE IF dir \o <<decl.name \o ".rs">> \in fs.files
                               THEN join(PackageDir, found) =
                                        dir \o <<decl.name \o ".rs">>
                               ELSE join(PackageDir, found) =
                                        dir \o <<decl.name, "main.rs">>

\* C23 witness: the example `b` is declared without a path and only
\* examples/b/main.rs exists, the binary `b` is declared with the path of a
\* file that does not exist: both have their artifact.
C23_Witness ==
    /\ pc = "lib"
    /\ Descriptor.examples = <<Target("b", None)>>
    /\ Descriptor.bins = <<Target("b", Some(<<"src", "custom.rs">>))>>
    /\ W \o <<"src", "custom.rs">> \notin fs.files
    /\ join(W, arts.examples["b"].path) = W \o <<"examples", "b", "main.rs">>
    /\ arts.bins["b"].path = <<"src", "custom.rs">>

\* The artifacts the declared targets of a kind give
DeclaredArtifacts(type) ==
    {Artifact(DeclaredOf(type)[i].name,
              MapOf(type)[DeclaredOf(type)[i].name].path, type) :
        i \in DOMAIN DeclaredOf(type)}
\* A file of the package, given relative to its root, is the source of a
\* declared target of a kind
Claimed(type, file) ==
    \E a \in DeclaredArtifacts(type) :
        join(PackageDir, a.path) = PackageDir \o file
\* The main binary auto-discovery adds: src/main.rs under the package's name,
\* when the file exists, is not claimed and no declared binary has that name
MainBinary ==
    IF /\ PackageDir \o <<"src", "main.rs">> \in fs.files
       /\ ~Claimed("Bin", <<"src", "main.rs">>)
       /\ package \notin DeclaredNames("Bin")
    THEN {Artifact(package, <<"src", "main.rs">>, "Bin")}
    ELSE {}
\* The artifacts auto-discovery adds for the .rs files directly in the
\* directory of a kind: each unclaimed file whose stem is not a name taken
Discovered(type, taken) ==
    {Artifact(st, KindDir(type) \o <<st \o ".rs">>, type) :
        st \in {x \in Stems :
                   /\ PackageDir \o KindDir(type) \o <<x \o ".rs">> \in fs.files
                   /\ ~Claimed(type, KindDir(type) \o <<x \o ".rs">>)
                   /\ x \notin taken}}

\* C24: after auto-discovery, whatever the other toggle is: with autobins off
\* the binaries are exactly the declared ones; with autobins on they are the
\* declared ones, the main binary src/main.rs under the package's name when
\* it exists and is neither claimed nor named like a declared binary, and one
\* binary named after its stem for each .rs file directly in src/bin that is
\* not claimed and whose stem is the name of no declared binary nor of the
\* main binary; likewise the examples with autoexamples and examples/, without
\* a main file.
C24_AutoDiscovery ==
    pc = "lib" =>
        /\ Values(arts.bins) =
               IF Unwrap(Descriptor.package).autobins
               THEN DeclaredArtifacts("Bin") \cup MainBinary
                    \cup Discovered("Bin",
                                    DeclaredNames("Bin")
                                    \cup {a.name : a \in MainBinary})
               ELSE DeclaredArtifacts("Bin")
        /\ Values(arts.examples) =
               IF Unwrap(Descriptor.package).autoexamples
               THEN DeclaredArtifacts("Example")
                    \cup Discovered("Example", DeclaredNames("Example"))
               ELSE DeclaredArtifacts("Example")
        /\ \A type \in Kinds : \A n \in DOMAIN MapOf(type) :
               MapOf(type)[n].name = n

\* C24 witness: autobins is on and autoexamples off; src/main.rs gave the
\* binary `p`, src/bin/a.rs the binary `a`, src/bin/p.rs nothing, and
\* examples/a.rs, which exists, no example.
C24_Witness ==
    /\ pc = "lib"
    /\ Unwrap(Descriptor.package).autobins
    /\ ~Unwrap(Descriptor.package).autoexamples
    /\ W \o <<"src", "bin", "p.rs">> \in fs.files
    /\ W \o <<"examples", "a.rs">> \in fs.files
    /\ Values(arts.bins) = {Artifact("p", <<"src", "main.rs">>, "Bin"),
                            Artifact("a", <<"src", "bin", "a.rs">>, "Bin")}
    /\ arts.examples = <<>>

(***************************************************************************)
(* The process environment a failed invocation leaves, checked under       *)
(* SpecFrame.                                                              *)
(***************************************************************************)
\* The project of the failure scenarios: /w with the given descriptor and
\* settings file, if any, and no source file at all.
FrameFs(manifest, cfg) ==
    [dirs |-> {Root, W, W \o <<"data">>},
     files |-> {},
     links |-> <<>>,
     manifest |-> [d \in {W} |-> manifest],
     cargo_config |-> [d \in {W} |-> cfg]]

\* The descriptors met: none, a malformed one, a virtual workspace root, the
\* package `p`, and `p` with a declared binary that has no source file
FrameManifests ==
    {None, Some(BrokenManifest("Toml")),
     Some(Manifest(Some(Workspace(<<>>)), None, None, <<>>, <<>>)),
     Some(Plain("p")),
     Some(Manifest(None, Some(Package("p", TRUE, TRUE)), None,
                   <<Target("b", None)>>, <<>>))}
\* The settings met: none, a malformed file, and [env] tables whose entries
\* resolve (X), or resolve for X and not for Y
FrameConfigs ==
    {None, Some(BrokenConfig("Toml")),
     Some(Config(None, Some([k \in {"X"} |-> EnvValue(<<"data">>, TRUE, TRUE)]))),
     Some(Config(None, Some([k \in {"X", "Y"} |->
                                IF k = "X" THEN EnvString(<<"w">>)
                                ELSE EnvValue(<<"nodir">>, TRUE, TRUE)])))}

\* Failure scenarios: every descriptor and settings file above, with the
\* variable X set or not by the caller, with no --manifest-path, a valid one or
\* one that names no file, and with or without a filter naming no package.
InitFrame ==
    \E manifest \in FrameManifests, cfg \in FrameConfigs,
       penv \in PartialMaps({"X"}, {OsStr(<<"b">>)}),
       path \in {None, Some(<<"Cargo.toml">>), Some(<<"nodir", "Cargo.toml">>)},
       filter \in {None, Some("x")} :
        StartWith(FrameFs(manifest, cfg), W,
                  [DefaultArgs EXCEPT !.manifest_path = path,
                                      !.package = filter],
                  penv)

SpecFrame == InitFrame /\ [][Twice]_vars

\* The invocation has failed, and where: before a package was selected
\* (manifest path, descriptor, workspace root, selection), or with a package
\* selected and no settings in hand (found none, or could not parse them)
FailedBeforeSelection == pc = "error" /\ IsNone(sel)
FailedWithoutSettings == pc \in {"error", "panic"} /\ IsSome(sel) /\ IsNone(config)

\* C25: an invocation that failed before a package was selected, or while
\* the settings were searched for and parsed, has left the process
\* environment as it was when it was called; an invocation that failed and
\* left another environment had a package selected and its settings parsed.
C25_EnvironmentOnFailure ==
    /\ (FailedBeforeSelection \/ FailedWithoutSettings) => env = hist.env0
    /\ (pc \in {"error", "panic"} /\ env # hist.env0) =>
           /\ IsSome(sel)
           /\ IsSome(config)
           /\ \A k \in DOMAIN env :
                  \/ k \in DOMAIN hist.env0 /\ env[k] = hist.env0[k]
                  \/ k \in DOMAIN Unwrap(Unwrap(config).config.env)

\* C25 witness: a declared binary has no source file, so that the invocation
\* returned BinNotFound; the caller had X set, and X now holds the forced
\* value of the settings.
C25_Witness ==
    /\ pc = "error"
    /\ outcome = Failed(Err("BinNotFound", <<"b">>))
    /\ hist.env0 = [k \in {"X"} |-> OsStr(<<"b">>)]
    /\ env = [k \in {"X"} |-> OsStr(W \o <<"data">>)]

(***************************************************************************)
(* Requested names that match nothing, checked under SpecArt.              *)
(***************************************************************************)
\* The names of the artifacts in a list
NamesOf(list) == {list[i].name : i \in DOMAIN list}

\* C26: the step that filters never fails: from the artifacts declared and
\* discovered it goes to a returned value that holds, of the binaries, those
\* whose name is requested by --bin, and of the examples those whose name is
\* requested by --example (all of them without any request), so that a
\* requested name no artifact has is dropped without an error and the value
\* can be empty. BinNotFound and ExampleNotFound come from the reading of the
\* declared targets alone, and carry the name of a declared target that has
\* neither a path of its own nor a file of the naming convention.
C26_UnmatchedDropped ==
    [][/\ pc = "lib" =>
             /\ pc' = "done"
             /\ outcome'.state = "Ok"
             /\ NamesOf(Unwrap(outcome'.project).bin_artifacts) =
                    IF FilterRequested
                    THEN DOMAIN arts.bins \cap args.bin ELSE DOMAIN arts.bins
             /\ NamesOf(Unwrap(outcome'.project).example_artifacts) =
                    IF FilterRequested
                    THEN DOMAIN arts.examples \cap args.example
                    ELSE DOMAIN arts.examples
       /\ (outcome'.state = "Err" /\ outcome.state # "Err"
              /\ outcome'.error.err \in {"BinNotFound", "ExampleNotFound"}) =>
             /\ pc = "declared"
             /\ LET type == IF outcome'.error.err = "BinNotFound"
                            THEN "Bin" ELSE "Example"
                IN  \E i \in DOMAIN DeclaredOf(type) :
                        /\ outcome'.error.arg = <<DeclaredOf(type)[i].name>>
                        /\ IsNone(ExpectedPath(type, DeclaredOf(type)[i]))
      ]_vars

\* C26 witness: --bin a was requested for a package that has the main binary
\* and no binary `a`, declared or discovered: the value returned holds no
\* artifact at all.
C26_Witness ==
    /\ pc = "done"
    /\ args.bin = {"a"}
    /\ "a" \notin DeclaredNames("Bin")
    /\ W \o <<"src", "bin", "a.rs">> \notin fs.files
    /\ W \o <<"src", "main.rs">> \in fs.files
    /\ autobins_enabled(Descriptor)
    /\ outcome.state = "Ok"
    /\ AllArtifacts = <<>>

====
